---- MODULE Spec2Model ----
(***************************************************************************)
(* Model of the OmniHelp multimodal RAG backend (services/backend/app):    *)
(*   - rag/core/config.py          HybridSearchConfig                      *)
(*   - rag/core/vectorstore.py     VectorStore (FAISS + BM25 builders)     *)
(*   - rag/core/hybrid_retriever.py HybridMultiModalRetrieval (RRF fusion) *)
(*   - rag/core/rag_pipeline.py    MultiModalRAG.generate                  *)
(*   - rag/core/rag_manager.py     MultiModalRAGSystem (agentic slot)      *)
(*   - rag/core/storage.py         save_index / load_index                 *)
(*   - api/app.py                  /ingest, /ingest-agentic, /query ...    *)
(*                                                                         *)
(* Fixed point: similarities, thresholds and confidences are integers in   *)
(* thousandths (1000 = 1.0); fusion weights are integers in tenths         *)
(* (4 = 0.4).  Fused RRF scores are exact rationals, compared over a       *)
(* common denominator.                                                     *)
(***************************************************************************)
EXTENDS Integers, Sequences, FiniteSets, TLC

VARIABLES
    config,     \* HybridSearchConfig class attributes, fixed at import
    store,      \* the indexes handed to a retriever: faiss_store, bm25_retriever
    ret,        \* the last HybridMultiModalRetrieval call and what it returned
    gen,        \* the query being answered (generate / stream): position, locals, outcome
    std,        \* api/app.py module globals of the standard slot
    ras,        \* the MultiModalRAGSystem singleton (agentic slot)
    disk,       \* data/<slot>/ snapshot written by save_index
    ing,        \* the ingestion request being served on the event loop
    qry,        \* an agentic query running in a worker thread; last /query status
    hist,       \* per slot: what the last finished ingestion attempt was
    proc        \* the server process: import of config.py, startup_event

vars == <<config, store, ret, gen, std, ras, disk, ing, qry, hist, proc>>

\* Python None for an index attribute: an absent FAISS store / BM25 retriever
NoFaiss == [present |-> FALSE, docstore |-> {}]

NoBM25 == [present |-> FALSE, docs |-> {}, k |-> 0, corpus |-> <<>>]

-----------------------------------------------------------------------------
(* State of each component when nothing is in progress *)

\* no HybridMultiModalRetrieval call has been made
\* no query was served before the one in hand
NoEarlier == [asked |-> FALSE, docs |-> <<>>]

IdleRet ==
    [called |-> FALSE, k |-> 0, use_hybrid |-> FALSE,
     denseOrder |-> <<>>, bm25Order |-> <<>>, earlier |-> NoEarlier,
     result |-> [docs |-> <<>>, path |-> "none", by_vector_calls |-> <<>>,
                 bm25_calls |-> 0, ensemble_weights |-> <<>>]]

NoOutcome ==
    [answer |-> "none", sources |-> <<>>, num_images |-> 0, num_text_chunks |-> 0,
     confidence |-> 0, top_similarity |-> 0, answer_source_similarity |-> 0,
     is_hallucination |-> FALSE]

\* MultiModalRAG.generate not running
IdleGen ==
    [pc |-> "idle", context_docs |-> <<>>, top_similarity |-> 0, nearest |-> 0,
     branch |-> "none", llm_calls |-> 0, embed_calls |-> 0, answer |-> "none",
     outcome |-> NoOutcome]

\* module globals at import: vectorstore = None, bm25_retriever = None, {}
EmptyStd ==
    [vectorstore |-> NoFaiss, bm25_retriever |-> NoBM25, image_data_store |-> {}]

\* the singleton after reset(), which is also how it is modelled before its
\* first initialize (the attributes do not exist yet; _initialized is False)
EmptyRas ==
    [initialized |-> FALSE, vectorStore |-> NoFaiss, bm25_retriever |-> NoBM25,
     all_docs |-> {}, text_docs |-> {}, image_data_store |-> {}]

\* data/<slot>/ without index.faiss and images.json; damaged names the files
\* of the snapshot that no longer deserialize
NoSnapshot == [faiss_store |-> NoFaiss, image_data_store |-> {}, damaged |-> {}]

EmptyCorpus ==
    [faiss_store |-> NoFaiss, bm25_retriever |-> NoBM25, image_data_store |-> {}]

NoAttempt == [outcome |-> "none", doc |-> 0, before |-> EmptyCorpus]

IdleIng == [pc |-> "idle", doc |-> 0]

IdleQry ==
    [pc |-> "idle", vectorStore |-> NoFaiss, image_data_store |-> {},
     bm25_retriever |-> NoBM25, std_view |-> "none"]

\* no index is held by a retriever
NoStore == [faiss_store |-> NoFaiss, bm25_retriever |-> NoBM25]

\* no snapshot in data/standard nor data/agentic
EmptyDisk == [standard |-> NoSnapshot, agentic |-> NoSnapshot]

NoHistory == [standard |-> NoAttempt, agentic |-> NoAttempt]

\* PDFConfig defaults: PDF_CHUNK_SIZE, PDF_CHUNK_OVERLAP
DefaultPDFConfig == [CHUNK_SIZE |-> 1000, CHUNK_OVERLAP |-> 200]

\* the lru_cache of get_embedder in a new process: empty, no CLIPEmbedder built
\*   cache       the cached instance (0: none); instances are numbered 1, 2, ...
\*   instances   CLIPEmbedder objects built by get_embedder so far
\*   built       of these, the ones built since the last cache_clear()
\*   hits, misses  cache_info() counters
\*   returned    instances handed to callers since the last cache_clear()
\*   last        outcome of the last call
NoEmbedder ==
    [cache |-> 0, instances |-> 0, built |-> 0, hits |-> 0, misses |-> 0,
     returned |-> {}, last |-> "none"]

\* a process whose import of config.py and startup_event have completed
RunningProc == [state |-> "running", pdf |-> DefaultPDFConfig, embedder |-> NoEmbedder]

-----------------------------------------------------------------------------
(* Generic helpers *)

Min(a, b) == IF a < b THEN a ELSE b

Max(a, b) == IF a > b THEN a ELSE b

Range(s) == {s[i] : i \in DOMAIN s}

\* Python slice s[:n] for n >= 0
Take(s, n) == SubSeq(s, 1, Min(n, Len(s)))

\* every ordering of the finite set S, as a sequence without repetition
Perms(S) ==
    {s \in [1..Cardinality(S) -> S] : \A i, j \in DOMAIN s : s[i] = s[j] => i = j}

RECURSIVE SumIdx(_, _)
\* sum of f[i] over the finite index set I
SumIdx(I, f) ==
    IF I = {} THEN 0
    ELSE LET i == CHOOSE x \in I : TRUE IN f[i] + SumIdx(I \ {i}, f)

\* the nearest integer to n / m for n >= 0, m > 0, ties to even (Python round)
RoundDiv(n, m) ==
    LET q == n \div m
        r == n % m
    IN IF 2 * r < m THEN q
       ELSE IF 2 * r > m THEN q + 1
       ELSE IF q % 2 = 0 THEN q ELSE q + 1

RECURSIVE Prod(_, _, _)
\* (c + lo) * (c + lo + 1) * ... * (c + hi)
Prod(c, lo, hi) == IF lo > hi THEN 1 ELSE (c + lo) * Prod(c, lo + 1, hi)

-----------------------------------------------------------------------------
(* The documents that can be uploaded, and their chunks.                   *)
(* A chunk is a langchain Document: page_content + metadata{page,type}.    *)

\* number of PDFs in the catalogue of uploads
NumDocs == 3

DocIds == 1..NumDocs

\* chunks produced by DataEmbedding.process_and_embedd_docs for each PDF:
\*   PDF 1: three text chunks and one image
\*   PDF 2: images only (no extractable text)
\*   PDF 3: two text chunks with identical text (a repeated header) and a third one
\*   PDF 5: five text chunks, all different
\*   any further PDF: a single text chunk
\*   PDF 0: blank pages, neither text nor image
ChunksOf(d) ==
    CASE d = 0 -> {}
      [] d = 1 -> {1, 2, 3, 4}
      [] d = 2 -> {8, 9}
      [] d = 3 -> {5, 6, 7}
      [] d = 5 -> {51, 52, 53, 54, 55}
      [] OTHER -> {10 * d}

ImageChunks == {4, 8, 9}

\* metadata["type"]
Kind(c) == IF c \in ImageChunks THEN "image" ELSE "text"

\* page_content, as an identifier of the string; chunks 5 and 6 carry the same text
Content(c) == IF c = 6 THEN 5 ELSE c

\* filter_documents_by_type()[0]
TextOf(S) == {c \in S : Kind(c) = "text"}

\* filter_documents_by_type()[1]
ImagesOf(S) == {c \in S : Kind(c) = "image"}

\* image_data_store keys: one base64 entry per image chunk (metadata["image_id"])
ImageStoreOf(d) == ImagesOf(ChunksOf(d))

\* metadata["page"] of a chunk
Page(c) ==
    CASE c \in {1, 2, 4, 5, 6, 8} -> 0
      [] c \in {3, 7, 9} -> 1
      [] OTHER -> 0

\* position of a chunk in the order process_and_embedd_docs appends: page by
\* page, the text chunks of a page before its images (chunk 4 sits on page 0)
AppendKey(c) == IF c = 4 THEN 5 ELSE 2 * c

RECURSIVE InAppendOrder(_)
\* the Python list holding the chunks S: they are in append order
InAppendOrder(S) ==
    IF S = {} THEN <<>>
    ELSE LET first == CHOOSE c \in S : \A x \in S : AppendKey(c) <= AppendKey(x)
         IN <<first>> \o InAppendOrder(S \ {first})

-----------------------------------------------------------------------------
(* rag/core/config.py: HybridSearchConfig *)

\* os.getenv defaults of HybridSearchConfig
DefaultConfig ==
    [HYBRID_SEARCH_ENABLED |-> TRUE,
     BM25_WEIGHT |-> 4,
     DENSE_WEIGHT |-> 6,
     K_TOTAL |-> 5,
     K_BM25_CANDIDATES |-> 10,
     K_DENSE_CANDIDATES |-> 10,
     RRF_K_CONSTANT |-> 60,
     MIN_SIMILARITY_THRESHOLD |-> 300]

\* HybridSearchConfig.validate(): the assertions run at import
validate(cfg) ==
    /\ 0 <= cfg.BM25_WEIGHT /\ cfg.BM25_WEIGHT <= 10
    /\ 0 <= cfg.DENSE_WEIGHT /\ cfg.DENSE_WEIGHT <= 10
    /\ cfg.K_TOTAL > 0
    /\ cfg.K_BM25_CANDIDATES >= cfg.K_TOTAL
    /\ cfg.K_DENSE_CANDIDATES >= cfg.K_TOTAL
    /\ 0 <= cfg.MIN_SIMILARITY_THRESHOLD /\ cfg.MIN_SIMILARITY_THRESHOLD <= 1000

\* environment overrides explored for the fusion parameters
BM25Weights == {1, 4, 10}

DenseWeights == {6}

RRFConstants == {1, 60}

KTotals == {2, 5}

CandidateCounts == {2, 10}

FusionConfigs ==
    {cfg \in [HYBRID_SEARCH_ENABLED : BOOLEAN,
              BM25_WEIGHT : BM25Weights,
              DENSE_WEIGHT : DenseWeights,
              K_TOTAL : KTotals,
              K_BM25_CANDIDATES : CandidateCounts,
              K_DENSE_CANDIDATES : CandidateCounts,
              RRF_K_CONSTANT : RRFConstants,
              MIN_SIMILARITY_THRESHOLD : {300}] :
        /\ validate(cfg)
        /\ cfg.K_BM25_CANDIDATES = cfg.K_DENSE_CANDIDATES}

-----------------------------------------------------------------------------
(* rag/core/vectorstore.py: VectorStore *)

\* FAISS.from_embeddings over all_docs: the docstore holds every chunk
create_faiss_vectorstore(all_docs) == [present |-> TRUE, docstore |-> all_docs]

\* BM25Retriever.from_documents(text_docs) with k = K_BM25_CANDIDATES,
\* or None when there is no text chunk; corpus is the list the index was
\* built from (BM25 breaks score ties by position in it)
create_bm25_retriever(text_docs, cfg) ==
    IF text_docs = {} THEN NoBM25
    ELSE [present |-> TRUE, docs |-> text_docs, k |-> cfg.K_BM25_CANDIDATES,
          corpus |-> InAppendOrder(text_docs)]

create_hybrid_retrievers(all_docs, text_docs, image_data_store, cfg) ==
    [faiss_store |-> create_faiss_vectorstore(all_docs),
     bm25_retriever |-> create_bm25_retriever(text_docs, cfg),
     image_data_store |-> image_data_store]

-----------------------------------------------------------------------------
(* langchain EnsembleRetriever, as constructed and invoked by              *)
(* HybridMultiModalRetrieval.retrieve_hybrid: weighted Reciprocal Rank     *)
(* Fusion over [bm25 list, dense list], keyed by page_content.             *)

\* EnsembleRetriever.c: retrieve_hybrid passes no c, so the library default applies
EnsembleDefaultC == 60

\* unique_by_key(chain(doc_lists), page_content): first occurrences, in order
unique_by_key(s) ==
    LET keep == {i \in DOMAIN s : \A j \in 1..(i - 1) : Content(s[j]) # Content(s[i])}
        pos(i) == Cardinality({j \in keep : j <= i})
    IN [p \in 1..Cardinality(keep) |-> s[CHOOSE i \in keep : pos(i) = p]]

\* common denominator of every weight / (rank + c) term of the two lists
ScoreDen(doc_lists, c) == Prod(c, 1, Max(Len(doc_lists[1]), Len(doc_lists[2])))

\* rrf_score with the two weights applied to the wrong lists
rrf_score_swapped_weights(doc_lists, weights, c, key) ==
    LET den == ScoreDen(doc_lists, c)
        part(l) ==
            SumIdx({r \in DOMAIN doc_lists[l] : Content(doc_lists[l][r]) = key},
                   [r \in DOMAIN doc_lists[l] |-> weights[3 - l] * (den \div (r + c))])
    IN part(1) + part(2)

\* rrf_score[key], times ScoreDen and times 10 (weights are in tenths):
\* for each list, for rank, doc in enumerate(list, start=1): += weight / (rank + c)
rrf_score(doc_lists, weights, c, key) ==
    LET den == ScoreDen(doc_lists, c)
        part(l) ==
            SumIdx({r \in DOMAIN doc_lists[l] : Content(doc_lists[l][r]) = key},
                   [r \in DOMAIN doc_lists[l] |-> weights[l] * (den \div (r + c))])
    IN part(1) + part(2)

\* sorted(unique docs, reverse=True, key=rrf_score): descending, stable
weighted_reciprocal_rank(doc_lists, weights, c) ==
    LET u == unique_by_key(doc_lists[1] \o doc_lists[2])
        sc == [i \in DOMAIN u |-> rrf_score(doc_lists, weights, c, Content(u[i]))]
        before(j, i) == sc[j] > sc[i] \/ (sc[j] = sc[i] /\ j < i)
        place == [i \in DOMAIN u |-> 1 + Cardinality({j \in DOMAIN u : before(j, i)})]
    IN [p \in DOMAIN u |-> u[CHOOSE i \in DOMAIN u : place[i] = p]]

-----------------------------------------------------------------------------
(* rag/core/hybrid_retriever.py: HybridMultiModalRetrieval                 *)
(* A retriever r has the fields k, use_hybrid, faiss_store, bm25_retriever *)
(* and the two rankings the indexes produce for its query:                 *)
(*   denseOrder  chunks of the FAISS store by increasing L2 distance       *)
(*   bm25Order   chunks of the BM25 index by decreasing BM25 score         *)
(* A result records the returned docs and the calls made on the indexes.   *)

\* faiss_store.similarity_search_by_vector(embedding, k)
similarity_search_by_vector(r, k) == Take(r.denseOrder, k)

\* bm25_retriever.invoke(query): the top bm25_retriever.k chunks
bm25_invoke(r) == Take(r.bm25Order, r.bm25_retriever.k)

retrieve_dense_only(r) ==
    [docs |-> similarity_search_by_vector(r, r.k),
     path |-> "dense",
     by_vector_calls |-> <<r.k>>,
     bm25_calls |-> 0,
     ensemble_weights |-> <<>>]

\* retrieve_hybrid without its "bm25_retriever is None" fallback
retrieve_hybrid_without_fallback(r, cfg) ==
    LET dense == Take(r.denseOrder, cfg.K_DENSE_CANDIDATES)
        w == <<cfg.BM25_WEIGHT, cfg.DENSE_WEIGHT>>
        results == weighted_reciprocal_rank(<<bm25_invoke(r), dense>>, w,
                                            EnsembleDefaultC)
    IN [docs |-> Take(results, r.k),
        path |-> "hybrid",
        by_vector_calls |-> <<>>,
        bm25_calls |-> 1,
        ensemble_weights |-> w]

retrieve_hybrid(r, cfg) ==
    IF ~r.bm25_retriever.present THEN retrieve_dense_only(r)
    ELSE LET dense == Take(r.denseOrder, cfg.K_DENSE_CANDIDATES)
             w == <<cfg.BM25_WEIGHT, cfg.DENSE_WEIGHT>>
             results == weighted_reciprocal_rank(<<bm25_invoke(r), dense>>, w,
                                                 EnsembleDefaultC)
         IN [docs |-> Take(results, r.k),
             path |-> "hybrid",
             by_vector_calls |-> <<>>,
             bm25_calls |-> 1,
             ensemble_weights |-> w]

\* retrieve_multimodal that looks at the instance flag only
retrieve_multimodal_ignoring_config(r, cfg) ==
    IF r.use_hybrid THEN retrieve_hybrid(r, cfg) ELSE retrieve_dense_only(r)

retrieve_multimodal(r, cfg) ==
    IF r.use_hybrid /\ cfg.HYBRID_SEARCH_ENABLED
    THEN retrieve_hybrid(r, cfg)
    ELSE retrieve_dense_only(r)


-----------------------------------------------------------------------------
(* What an ingestion builds from PDF d.                                    *)

\* a DataEmbedding whose lists outlive the instance: chunks of the corpora
\* already held by the two slots pile up in front of the new ones
process_and_embedd_docs_shared_lists(d) ==
    LET kept == std.vectorstore.docstore \cup ras.vectorStore.docstore
    IN [all_docs |-> kept \cup ChunksOf(d),
        image_data_store |-> ImagesOf(kept) \cup ImageStoreOf(d),
        text_docs |-> TextOf(kept) \cup TextOf(ChunksOf(d))]

\* DataEmbedding(pdf_path).process_and_embedd_docs(): the lists of a fresh instance
process_and_embedd_docs(d) ==
    [all_docs |-> ChunksOf(d),
     image_data_store |-> ImageStoreOf(d),
     text_docs |-> TextOf(ChunksOf(d))]

\* api/app.py ingest_document: always create_hybrid_retrievers
StandardBuild(d, cfg) ==
    LET p == process_and_embedd_docs(d)
    IN create_hybrid_retrievers(p.all_docs, p.text_docs, p.image_data_store, cfg)

\* MultiModalRAGSystem.initialize: BM25 only when HYBRID_SEARCH_ENABLED
AgenticBuild(d, cfg) ==
    LET p == process_and_embedd_docs(d)
    IN IF cfg.HYBRID_SEARCH_ENABLED
       THEN create_hybrid_retrievers(p.all_docs, p.text_docs, p.image_data_store, cfg)
       ELSE [faiss_store |-> create_faiss_vectorstore(p.all_docs),
             bm25_retriever |-> NoBM25,
             image_data_store |-> p.image_data_store]

-----------------------------------------------------------------------------
(* Retrieval specification: the indexes of one ingested PDF, queried       *)
(* through HybridMultiModalRetrieval with every k, use_hybrid and ranking. *)

\* largest result count k a caller asks for
MaxK == 3

\* the retriever object built for one query on the current indexes
Retriever(k, use_hybrid, denseOrder, bm25Order) ==
    [k |-> k, use_hybrid |-> use_hybrid,
     faiss_store |-> store.faiss_store, bm25_retriever |-> store.bm25_retriever,
     denseOrder |-> denseOrder, bm25Order |-> bm25Order]

\* a retrieval that leaves its k on the shared BM25 retriever
RetrieveMultimodal_overriding_bm25_k ==
    \E k \in 1..MaxK, use_hybrid \in BOOLEAN,
       denseOrder \in Perms(store.faiss_store.docstore),
       bm25Order \in Perms(store.bm25_retriever.docs) :
        /\ ~ret.called
        /\ ret' = [called |-> TRUE, k |-> k, use_hybrid |-> use_hybrid,
                   denseOrder |-> denseOrder, bm25Order |-> bm25Order,
                   earlier |-> ret.earlier,
                   result |-> retrieve_multimodal(
                       Retriever(k, use_hybrid, denseOrder, bm25Order), config)]
        /\ store' = IF store.bm25_retriever.present
                    THEN [store EXCEPT !.bm25_retriever.k = k] ELSE store
        /\ UNCHANGED <<config, gen, std, ras, disk, ing, qry, hist, proc>>

\* HybridMultiModalRetrieval(...).retrieve_multimodal()
RetrieveMultimodal ==
    \E k \in 1..MaxK, use_hybrid \in BOOLEAN,
       denseOrder \in Perms(store.faiss_store.docstore),
       bm25Order \in Perms(store.bm25_retriever.docs) :
        /\ ~ret.called
        /\ ret' = [called |-> TRUE, k |-> k, use_hybrid |-> use_hybrid,
                   denseOrder |-> denseOrder, bm25Order |-> bm25Order,
                   earlier |-> ret.earlier,
                   result |-> retrieve_multimodal(
                       Retriever(k, use_hybrid, denseOrder, bm25Order), config)]
        /\ UNCHANGED <<config, store, gen, std, ras, disk, ing, qry, hist, proc>>

\* the same question is asked again with the same k and use_hybrid: a new
\* retriever object is built on the indexes as they are now; the list the
\* earlier query returned is kept for comparison
RepeatQuery ==
    /\ ret.called
    /\ ~ret.earlier.asked
    /\ ret' = [ret EXCEPT
                 !.earlier = [asked |-> TRUE, docs |-> ret.result.docs],
                 !.result = retrieve_multimodal(
                     Retriever(ret.k, ret.use_hybrid, ret.denseOrder, ret.bm25Order),
                     config)]
    /\ UNCHANGED <<config, store, gen, std, ras, disk, ing, qry, hist, proc>>

\* the retriever object and its result go out of scope
DiscardRetriever ==
    /\ ret.called
    /\ ret' = IdleRet
    /\ UNCHANGED <<config, store, gen, std, ras, disk, ing, qry, hist, proc>>

InitFusion ==
    /\ config \in FusionConfigs
    /\ \E d \in DocIds :
         store \in {[faiss_store |-> b.faiss_store, bm25_retriever |-> b.bm25_retriever] :
                      b \in {StandardBuild(d, config), AgenticBuild(d, config)}}
    /\ ret = IdleRet
    /\ gen = IdleGen
    /\ std = EmptyStd /\ ras = EmptyRas /\ disk = EmptyDisk
    /\ ing = IdleIng /\ qry = IdleQry /\ hist = NoHistory
    /\ proc = RunningProc

NextFusion == RetrieveMultimodal \/ DiscardRetriever

SpecFusion == InitFusion /\ [][NextFusion]_vars

\* queries, each possibly asked twice in a row
NextRepeat == RetrieveMultimodal \/ RepeatQuery \/ DiscardRetriever

\* a corpus in either kind of slot, default settings, hybrid search on or off
InitRepeat ==
    /\ config \in {[DefaultConfig EXCEPT !.HYBRID_SEARCH_ENABLED = h] : h \in BOOLEAN}
    /\ \E d \in DocIds :
         store \in {[faiss_store |-> b.faiss_store, bm25_retriever |-> b.bm25_retriever] :
                      b \in {StandardBuild(d, config), AgenticBuild(d, config)}}
    /\ ret = IdleRet
    /\ gen = IdleGen
    /\ std = EmptyStd /\ ras = EmptyRas /\ disk = EmptyDisk
    /\ ing = IdleIng /\ qry = IdleQry /\ hist = NoHistory
    /\ proc = RunningProc

SpecRepeat == InitRepeat /\ [][NextRepeat]_vars


-----------------------------------------------------------------------------
(* rag/core/rag_pipeline.py: MultiModalRAG.generate, as called by          *)
(* api/app.py query_documents (k = 5, use_hybrid = True).                  *)

\* MultiModalRAG.k default, also passed by query_documents
PipelineK == 5

\* HybridSearchConfig.HALLUCINATION_THRESHOLD, read by generate; thousandths
HALLUCINATION_THRESHOLD == 500

\* similarity of distance d (thousandths): 1 / (1 + d)
normalized_similarity(d) == 1000000 \div (1000 + d)

\* MultiModalRetrieval.retrieve_multimodal() as generate consumes it:
\* {"docs": ranked chunks, "top_similarity": 1/(1+d) of the nearest chunk,
\*  0.0 for an empty index}
retrieval_result(r, cfg, dist) ==
    [docs |-> retrieve_multimodal(r, cfg).docs,
     top_similarity |-> IF r.denseOrder = <<>> THEN 0
                        ELSE normalized_similarity(dist)]

\* squared L2 distances of the nearest chunk (thousandths; unit vectors: 0..4)
Distances == {0, 500, 2333, 2334, 4000}

\* MIN_SIMILARITY_THRESHOLD overrides explored (thousandths)
Thresholds == {0, 300, 666, 1000}

\* what llm.invoke can answer, by its relation to the retrieved text
Answers == {"blank", "grounded", "unrelated", "opposed"}

\* np.dot(answer_emb, doc_emb) in thousandths, for a non-blank answer: unit
\* vectors, so within -1000..1000; the embedding is a function of page_content,
\* and the answer is nearest to the first chunk of the document
AnswerDot(answer, doc) ==
    LET far == (Content(doc) - 1) % 4
    IN CASE answer = "grounded" -> 850 - 220 * far
         [] answer = "unrelated" -> 120 - 80 * far
         [] OTHER -> -200 - 50 * far

\* round(x / 10) to the nearest integer, ties to even (Python round)
RoundTenth(x) ==
    LET q == x \div 10
        m == x % 10
    IN IF m < 5 THEN q
       ELSE IF m > 5 THEN q + 1
       ELSE IF q % 2 = 0 THEN q ELSE q + 1

\* a confidence whose coverage term is not capped at five chunks
compute_confidence_uncapped(top_similarity, num_chunks) ==
    RoundTenth(7 * Min(top_similarity, 1000) + 3 * 200 * num_chunks)

\* _compute_confidence: round(0.7 * min(sim, 1) + 0.3 * min(n / 5, 1), 3)
compute_confidence(top_similarity, num_chunks) ==
    RoundTenth(7 * Min(top_similarity, 1000) + 3 * Min(200 * num_chunks, 1000))

\* the loop of _compute_answer_source_similarity over text_docs, from max_sim
RECURSIVE max_sim_over(_, _, _)
max_sim_over(answer, text_docs, max_sim) ==
    IF text_docs = <<>> THEN max_sim
    ELSE LET sim == AnswerDot(answer, Head(text_docs))
         IN max_sim_over(answer, Tail(text_docs), IF sim > max_sim THEN sim ELSE max_sim)

\* a grounding score whose loop starts from the lowest dot product, not from 0.0
compute_answer_source_similarity_from_lowest(answer, text_docs) ==
    IF text_docs = <<>> \/ answer = "blank" THEN 0
    ELSE max_sim_over(answer, text_docs, -1000)

\* _compute_answer_source_similarity: 0.0 without text chunks or for a blank
\* answer, else the largest dot product, starting from max_sim = 0.0
compute_answer_source_similarity(answer, text_docs) ==
    IF text_docs = <<>> \/ answer = "blank" THEN 0
    ELSE max_sim_over(answer, text_docs, 0)

\* embedder.embed_text calls made by _compute_answer_source_similarity: none
\* when it returns early, else one for the answer and one per chunk
embed_text_calls(answer, text_docs) ==
    IF text_docs = <<>> \/ answer = "blank" THEN 0
    ELSE 1 + Len(text_docs)

\* a guardrail that also rejects a similarity equal to the threshold
rejects_at_threshold(top_similarity, cfg) ==
    top_similarity <= cfg.MIN_SIMILARITY_THRESHOLD

\* the guardrail test of generate
rejects(top_similarity, cfg) == top_similarity < cfg.MIN_SIMILARITY_THRESHOLD

\* the dict returned when the guardrail rejects
RejectedOutcome(top_similarity) ==
    [answer |-> "insufficient",
     sources |-> <<>>,
     num_images |-> 0,
     num_text_chunks |-> 0,
     confidence |-> 0,
     top_similarity |-> top_similarity,
     answer_source_similarity |-> 0,
     is_hallucination |-> FALSE]

\* [doc for doc in s if type matches], order kept
RECURSIVE FilterKind(_, _)
FilterKind(s, kind) ==
    IF s = <<>> THEN <<>>
    ELSE (IF Kind(Head(s)) = kind THEN <<Head(s)>> ELSE <<>>) \o FilterKind(Tail(s), kind)

\* an admitted path that withholds a flagged answer and its sources
AdmittedOutcome_withholding_flagged(answer, context_docs, top_similarity) ==
    LET text_docs == FilterKind(context_docs, "text")
        image_docs == FilterKind(context_docs, "image")
        grounding == compute_answer_source_similarity(answer, text_docs)
        is_hallucination == grounding < HALLUCINATION_THRESHOLD
    IN [answer |-> IF is_hallucination THEN "insufficient" ELSE answer,
        sources |-> IF is_hallucination THEN <<>> ELSE context_docs,
        num_images |-> Len(image_docs),
        num_text_chunks |-> Len(text_docs),
        confidence |-> compute_confidence(top_similarity, Len(text_docs)),
        top_similarity |-> top_similarity,
        answer_source_similarity |-> grounding,
        is_hallucination |-> is_hallucination]

\* the dict returned on the admitted path
AdmittedOutcome(answer, context_docs, top_similarity) ==
    LET text_docs == FilterKind(context_docs, "text")
        image_docs == FilterKind(context_docs, "image")
        grounding == compute_answer_source_similarity(answer, text_docs)
    IN [answer |-> answer,
        sources |-> context_docs,
        num_images |-> Len(image_docs),
        num_text_chunks |-> Len(text_docs),
        confidence |-> compute_confidence(top_similarity, Len(text_docs)),
        top_similarity |-> top_similarity,
        answer_source_similarity |-> grounding,
        is_hallucination |-> grounding < HALLUCINATION_THRESHOLD]

\* lines 80-96: build the retriever, retrieve, split by type
GenRetrieve ==
    \E denseOrder \in Perms(store.faiss_store.docstore),
       bm25Order \in Perms(store.bm25_retriever.docs),
       dist \in Distances :
        LET r == Retriever(PipelineK, TRUE, denseOrder, bm25Order)
            res == retrieval_result(r, config, dist)
        IN /\ gen.pc = "idle"
           /\ gen' = [IdleGen EXCEPT !.pc = "retrieved",
                                     !.context_docs = res.docs,
                                     !.top_similarity = res.top_similarity,
                                     !.nearest = dist]
           /\ UNCHANGED <<config, store, ret, std, ras, disk, ing, qry, hist, proc>>

\* a guardrail that notes the rejection but goes on to the LLM
GenGuardrailFallThrough ==
    /\ gen.pc = "retrieved"
    /\ gen' = [gen EXCEPT !.pc = "admitted",
                          !.branch = IF gen.top_similarity < config.MIN_SIMILARITY_THRESHOLD
                                     THEN "rejected" ELSE "admitted"]
    /\ UNCHANGED <<config, store, ret, std, ras, disk, ing, qry, hist, proc>>

\* lines 98-110: reject (return at once) or go on
GenGuardrail ==
    /\ gen.pc = "retrieved"
    /\ IF rejects(gen.top_similarity, config)
       THEN gen' = [gen EXCEPT !.pc = "done", !.branch = "rejected",
                               !.outcome = RejectedOutcome(gen.top_similarity)]
       ELSE gen' = [gen EXCEPT !.pc = "admitted", !.branch = "admitted"]
    /\ UNCHANGED <<config, store, ret, std, ras, disk, ing, qry, hist, proc>>

\* lines 112-114: create_multimodal_message, llm.invoke
GenInvokeLLM ==
    \E answer \in Answers :
        /\ gen.pc = "admitted"
        /\ gen' = [gen EXCEPT !.pc = "generated", !.answer = answer,
                              !.llm_calls = @ + 1]
        /\ UNCHANGED <<config, store, ret, std, ras, disk, ing, qry, hist, proc>>

\* lines 116-136: confidence, grounding, hallucination flag, return
GenScore ==
    /\ gen.pc = "generated"
    /\ gen' = [gen EXCEPT !.pc = "done",
                          !.embed_calls = embed_text_calls(
                              gen.answer, FilterKind(gen.context_docs, "text")),
                          !.outcome = AdmittedOutcome(gen.answer, gen.context_docs,
                                                      gen.top_similarity)]
    /\ UNCHANGED <<config, store, ret, std, ras, disk, ing, qry, hist, proc>>

\* the response is sent; the next /query starts from scratch
GenReturn ==
    /\ gen.pc = "done"
    /\ gen' = IdleGen
    /\ UNCHANGED <<config, store, ret, std, ras, disk, ing, qry, hist, proc>>

InitPipeline ==
    /\ config \in {[DefaultConfig EXCEPT !.MIN_SIMILARITY_THRESHOLD = t] : t \in Thresholds}
    /\ \E d \in DocIds :
         store = [faiss_store |-> StandardBuild(d, config).faiss_store,
                  bm25_retriever |-> StandardBuild(d, config).bm25_retriever]
    /\ gen = IdleGen
    /\ ret = IdleRet
    /\ std = EmptyStd /\ ras = EmptyRas /\ disk = EmptyDisk
    /\ ing = IdleIng /\ qry = IdleQry /\ hist = NoHistory
    /\ proc = RunningProc

NextPipeline == GenRetrieve \/ GenGuardrail \/ GenInvokeLLM \/ GenScore \/ GenReturn

Spec == InitPipeline /\ [][NextPipeline]_vars

-----------------------------------------------------------------------------
(* Properties of the query pipeline (Spec) *)

\* C1: the guardrail admits a query exactly when top_similarity is at least
\* MIN_SIMILARITY_THRESHOLD: equal is admitted, anything below is rejected.
C1_GuardrailBoundary ==
    gen.branch # "none" =>
        (gen.branch = "admitted"
            <=> gen.top_similarity >= config.MIN_SIMILARITY_THRESHOLD)

\* an admitted query whose similarity equals a threshold strictly inside (0, 1)
C1_Witness ==
    /\ gen.branch = "admitted"
    /\ gen.top_similarity = config.MIN_SIMILARITY_THRESHOLD
    /\ config.MIN_SIMILARITY_THRESHOLD = 300

\* C2: once the guardrail has rejected, generate has returned without any
\* llm.invoke, with zero counts, confidence, grounding, no hallucination flag,
\* no sources, and the top_similarity that retrieval measured.
C2_RejectionShortCircuit ==
    gen.branch = "rejected" =>
        /\ gen.pc = "done"
        /\ gen.llm_calls = 0
        /\ gen.outcome.num_text_chunks = 0
        /\ gen.outcome.num_images = 0
        /\ gen.outcome.confidence = 0
        /\ gen.outcome.answer_source_similarity = 0
        /\ gen.outcome.is_hallucination = FALSE
        /\ gen.outcome.sources = <<>>
        /\ gen.outcome.answer = "insufficient"
        /\ gen.outcome.top_similarity = gen.top_similarity

\* a rejected query for which retrieval had returned chunks and a similarity > 0
C2_Witness ==
    /\ gen.branch = "rejected"
    /\ Len(gen.context_docs) = 4
    /\ gen.top_similarity = 299

\* C18: the hallucination flag is set exactly when the grounding score of the
\* generated answer is below HALLUCINATION_THRESHOLD; it is computed only on
\* the admitted path, after the one llm.invoke; a flagged response carries the
\* generated answer, every retrieved source and the counts, as an unflagged one.
C18_HallucinationFlagAdvisory ==
    /\ gen.outcome.is_hallucination =>
          /\ gen.pc = "done" /\ gen.branch = "admitted" /\ gen.llm_calls = 1
    /\ (gen.pc = "done" /\ gen.branch = "admitted") =>
          LET text_docs == FilterKind(gen.context_docs, "text")
          IN /\ gen.llm_calls = 1
             /\ gen.outcome.answer_source_similarity
                  = compute_answer_source_similarity(gen.answer, text_docs)
             /\ gen.outcome.is_hallucination
                  <=> gen.outcome.answer_source_similarity < HALLUCINATION_THRESHOLD
             /\ gen.outcome.answer = gen.answer
             /\ gen.outcome.sources = gen.context_docs
             /\ gen.outcome.num_text_chunks = Len(text_docs)
             /\ gen.outcome.num_images = Len(gen.context_docs) - Len(text_docs)
             /\ gen.outcome.top_similarity = gen.top_similarity

\* a flagged answer returned with the four chunks of PDF 1 as sources
C18_Witness ==
    /\ gen.pc = "done" /\ gen.branch = "admitted"
    /\ gen.outcome.is_hallucination
    /\ gen.outcome.answer = "unrelated"
    /\ gen.outcome.answer_source_similarity = 120
    /\ Len(gen.outcome.sources) = 4
    /\ gen.outcome.num_text_chunks = 3

-----------------------------------------------------------------------------
(* The two corpus slots of api/app.py.                                     *)
(*   standard: module globals vectorstore, bm25_retriever, image_data_store *)
(*   agentic : the MultiModalRAGSystem singleton agentic_rag_system         *)
(* /ingest, /query, /ingest-agentic and /query-agentic are async handlers   *)
(* without an await: each runs to completion on the event loop.             *)
(* /query-agentic-stream awaits graph.astream, whose agent node runs        *)
(* MultiModalRAGSystem.query in a worker thread while the event loop is     *)
(* free to serve /ingest-agentic; the two then interleave statement by      *)
(* statement on the attributes of the singleton.                            *)

\* the corpus a slot serves queries from
ActiveCorpus(slot) ==
    IF slot = "standard"
    THEN [faiss_store |-> std.vectorstore, bm25_retriever |-> std.bm25_retriever,
          image_data_store |-> std.image_data_store]
    ELSE [faiss_store |-> ras.vectorStore, bm25_retriever |-> ras.bm25_retriever,
          image_data_store |-> ras.image_data_store]

\* the complete corpus of PDF d, as the slot's ingestion builds it
BuiltCorpus(slot, d) ==
    IF slot = "standard" THEN StandardBuild(d, config) ELSE AgenticBuild(d, config)

\* save_index(faiss_store, image_data_store, slot); written == "faiss" when the
\* write of images.json raises after save_local succeeded
save_index(snapshot, faiss_store, image_data_store, written) ==
    IF written = "nothing" THEN snapshot
    ELSE IF written = "faiss"
    THEN [snapshot EXCEPT !.faiss_store = faiss_store,
                          !.damaged = @ \ {"index.faiss", "index.pkl"}]
    ELSE [faiss_store |-> faiss_store, image_data_store |-> image_data_store,
          damaged |-> {}]

\* number of PDFs uploaded to the slots (the first ones of the catalogue)
NumSlotDocs == 2

SlotDocs == 1..NumSlotDocs

\* where an ingestion can raise
Failures == {"process", "build", "save_faiss", "save_images"}

\* POST /ingest: the whole handler
IngestStandard ==
    \E d \in SlotDocs, fail \in Failures \cup {"none"} :
        LET built == StandardBuild(d, config)
            assigned == fail \notin {"process", "build"}
            written == CASE fail = "none" -> "all"
                         [] fail = "save_images" -> "faiss"
                         [] OTHER -> "nothing"
        IN /\ ing.pc = "idle"
           /\ std' = IF assigned
                     THEN [vectorstore |-> built.faiss_store,
                           bm25_retriever |-> built.bm25_retriever,
                           image_data_store |-> built.image_data_store]
                     ELSE std
           /\ disk' = [disk EXCEPT !.standard =
                          save_index(@, built.faiss_store, built.image_data_store, written)]
           /\ hist' = [hist EXCEPT !.standard =
                          [outcome |-> IF fail = "none" THEN "ok" ELSE "failed",
                           doc |-> d, before |-> ActiveCorpus("standard")]]
           /\ UNCHANGED <<config, store, ret, gen, ras, ing, qry, proc>>

\* POST /query up to the construction of MultiModalRAG: 400 without a
\* vectorstore, else the three globals are handed to the pipeline
QueryStandard ==
    /\ ing.pc = "idle"
    /\ qry' = [qry EXCEPT !.std_view =
                  IF ~std.vectorstore.present THEN "refused" ELSE "served"]
    /\ UNCHANGED <<config, store, ret, gen, std, ras, disk, ing, hist, proc>>

\* POST /ingest-agentic up to initialize() line 40-42 and reset() line 126
StartIngestAgentic ==
    \E d \in SlotDocs :
        /\ ing.pc = "idle"
        /\ hist' = [hist EXCEPT !.agentic =
                       [outcome |-> "running", doc |-> d,
                        before |-> ActiveCorpus("agentic")]]
        /\ IF ras.initialized
           THEN /\ ras' = [ras EXCEPT !.initialized = FALSE]
                /\ ing' = [pc |-> "reset_vectorStore", doc |-> d]
           ELSE /\ ras' = ras
                /\ ing' = [pc |-> "process", doc |-> d]
        /\ UNCHANGED <<config, store, ret, gen, std, disk, qry, proc>>

\* reset() line 127
ResetVectorStore ==
    /\ ing.pc = "reset_vectorStore"
    /\ ras' = [ras EXCEPT !.vectorStore = NoFaiss]
    /\ ing' = [ing EXCEPT !.pc = "reset_bm25"]
    /\ UNCHANGED <<config, store, ret, gen, std, disk, qry, hist, proc>>

\* reset() lines 128-131
ResetBM25 ==
    /\ ing.pc = "reset_bm25"
    /\ ras' = [ras EXCEPT !.bm25_retriever = NoBM25, !.all_docs = {}, !.text_docs = {}]
    /\ ing' = [ing EXCEPT !.pc = "reset_images"]
    /\ UNCHANGED <<config, store, ret, gen, std, disk, qry, hist, proc>>

\* reset() lines 132-134
ResetImages ==
    /\ ing.pc = "reset_images"
    /\ ras' = [ras EXCEPT !.image_data_store = {}]
    /\ ing' = [ing EXCEPT !.pc = "process"]
    /\ UNCHANGED <<config, store, ret, gen, std, disk, qry, hist, proc>>

\* the handler's except branch: HTTP 500, the singleton stays as it is
IngestAgenticRaise ==
    /\ ing' = IdleIng
    /\ hist' = [hist EXCEPT !.agentic.outcome = "failed"]

\* initialize() lines 47-49: parse and embed, then assign the lists
Process ==
    /\ ing.pc = "process"
    /\ \/ /\ IngestAgenticRaise
          /\ UNCHANGED ras
       \/ LET p == process_and_embedd_docs(ing.doc)
          IN /\ ras' = [ras EXCEPT !.all_docs = p.all_docs,
                                   !.image_data_store = p.image_data_store,
                                   !.text_docs = p.text_docs]
             /\ ing' = [ing EXCEPT !.pc = "build"]
             /\ UNCHANGED hist
    /\ UNCHANGED <<config, store, ret, gen, std, disk, qry, proc>>

\* initialize() lines 52-63 / 68: build the stores, assign vectorStore
BuildAndSetVectorStore ==
    /\ ing.pc = "build"
    /\ \/ /\ IngestAgenticRaise
          /\ UNCHANGED ras
       \/ /\ ras' = [ras EXCEPT !.vectorStore = create_faiss_vectorstore(ras.all_docs)]
          /\ ing' = [ing EXCEPT !.pc = "set_bm25"]
          /\ UNCHANGED hist
    /\ UNCHANGED <<config, store, ret, gen, std, disk, qry, proc>>

\* initialize() line 64 / 69
SetBM25 ==
    /\ ing.pc = "set_bm25"
    /\ ras' = [ras EXCEPT !.bm25_retriever =
                  IF config.HYBRID_SEARCH_ENABLED
                  THEN create_bm25_retriever(ras.text_docs, config)
                  ELSE NoBM25]
    /\ ing' = [ing EXCEPT !.pc = "set_initialized"]
    /\ UNCHANGED <<config, store, ret, gen, std, disk, qry, hist, proc>>

\* initialize() lines 73-75
SetInitialized ==
    /\ ing.pc = "set_initialized"
    /\ ras' = [ras EXCEPT !.initialized = TRUE]
    /\ ing' = [ing EXCEPT !.pc = "save"]
    /\ UNCHANGED <<config, store, ret, gen, std, disk, qry, hist, proc>>

\* ingest_document_agentic saving under the index_type of the other endpoint
SaveAgentic_into_standard_folder ==
    \E written \in {"nothing", "faiss", "all"} :
        /\ ing.pc = "save"
        /\ disk' = [disk EXCEPT !.standard =
                       save_index(@, ras.vectorStore, ras.image_data_store, written)]
        /\ ing' = IdleIng
        /\ hist' = [hist EXCEPT !.agentic.outcome =
                       IF written = "all" THEN "ok" ELSE "failed"]
        /\ UNCHANGED <<config, store, ret, gen, std, ras, qry, proc>>

\* ingest_document_agentic lines 304-335: save_index, response
SaveAgentic ==
    \E written \in {"nothing", "faiss", "all"} :
        /\ ing.pc = "save"
        /\ disk' = [disk EXCEPT !.agentic =
                       save_index(@, ras.vectorStore, ras.image_data_store, written)]
        /\ ing' = IdleIng
        /\ hist' = [hist EXCEPT !.agentic.outcome =
                       IF written = "all" THEN "ok" ELSE "failed"]
        /\ UNCHANGED <<config, store, ret, gen, std, ras, qry, proc>>

\* POST /query-agentic-stream: is_initialized() on the event loop, then the
\* agent node is started in a worker thread
StartQueryAgenticStream ==
    /\ ing.pc = "idle"
    /\ qry.pc = "idle"
    /\ qry' = [IdleQry EXCEPT !.pc = IF ras.initialized THEN "query" ELSE "refused",
                              !.std_view = qry.std_view]
    /\ UNCHANGED <<config, store, ret, gen, std, ras, disk, ing, hist, proc>>

\* query() lines 91-92
QueryCheckInitialized ==
    /\ qry.pc = "query"
    /\ qry' = [qry EXCEPT !.pc = IF ras.initialized THEN "read_vectorStore" ELSE "raised"]
    /\ UNCHANGED <<config, store, ret, gen, std, ras, disk, ing, hist, proc>>

\* query() line 98
QueryReadVectorStore ==
    /\ qry.pc = "read_vectorStore"
    /\ qry' = [qry EXCEPT !.pc = "read_images", !.vectorStore = ras.vectorStore]
    /\ UNCHANGED <<config, store, ret, gen, std, ras, disk, ing, hist, proc>>

\* query() line 99
QueryReadImages ==
    /\ qry.pc = "read_images"
    /\ qry' = [qry EXCEPT !.pc = "read_bm25", !.image_data_store = ras.image_data_store]
    /\ UNCHANGED <<config, store, ret, gen, std, ras, disk, ing, hist, proc>>

\* query() lines 101-103
QueryReadBM25 ==
    /\ qry.pc = "read_bm25"
    /\ qry' = [qry EXCEPT !.pc = "retrieve", !.bm25_retriever = ras.bm25_retriever]
    /\ UNCHANGED <<config, store, ret, gen, std, ras, disk, ing, hist, proc>>

\* a retrieval that leaves the k of the query on the shared BM25 retriever
QueryRetrieve_overriding_bm25_k ==
    /\ qry.pc = "retrieve"
    /\ qry' = [qry EXCEPT !.pc = IF qry.vectorStore.present THEN "returned" ELSE "raised"]
    /\ ras' = IF ras.bm25_retriever.present
              THEN [ras EXCEPT !.bm25_retriever.k = PipelineK] ELSE ras
    /\ UNCHANGED <<config, store, ret, gen, std, disk, ing, hist, proc>>

\* query() lines 104-118: retrieval on what was read; None has no search method
QueryRetrieve ==
    /\ qry.pc = "retrieve"
    /\ qry' = [qry EXCEPT !.pc = IF qry.vectorStore.present THEN "returned" ELSE "raised"]
    /\ UNCHANGED <<config, store, ret, gen, std, ras, disk, ing, hist, proc>>

\* the stream ends (answer, error text or HTTP 400)
QueryFinish ==
    /\ qry.pc \in {"returned", "raised", "refused"}
    /\ qry' = [IdleQry EXCEPT !.std_view = qry.std_view]
    /\ UNCHANGED <<config, store, ret, gen, std, ras, disk, ing, hist, proc>>

InitSlot ==
    /\ config \in {[DefaultConfig EXCEPT !.HYBRID_SEARCH_ENABLED = h] : h \in BOOLEAN}
    /\ std = EmptyStd
    /\ ras = EmptyRas
    /\ disk = EmptyDisk
    /\ ing = IdleIng
    /\ qry = IdleQry
    /\ hist = NoHistory
    /\ store = NoStore /\ ret = IdleRet /\ gen = IdleGen
    /\ proc = RunningProc

\* POST /ingest-agentic, statement by statement
IngestAgentic ==
    \/ StartIngestAgentic
    \/ ResetVectorStore
    \/ ResetBM25
    \/ ResetImages
    \/ Process
    \/ BuildAndSetVectorStore
    \/ SetBM25
    \/ SetInitialized
    \/ SaveAgentic

\* POST /query-agentic-stream, statement by statement
QueryAgenticStream ==
    \/ StartQueryAgenticStream
    \/ QueryCheckInitialized
    \/ QueryReadVectorStore
    \/ QueryReadImages
    \/ QueryReadBM25
    \/ QueryRetrieve
    \/ QueryFinish

\* ingestions into both slots and /query on the standard slot
NextSlot == IngestStandard \/ QueryStandard \/ IngestAgentic

SpecSlot == InitSlot /\ [][NextSlot]_vars

\* the agentic slot with a streaming query running beside the ingestions
NextAgentic == IngestAgentic \/ QueryAgenticStream

SpecAgentic == InitSlot /\ [][NextAgentic]_vars

-----------------------------------------------------------------------------
(* Properties of the corpus slots (SpecAgentic, SpecSlot) *)

\* how many of the three index attributes the running query() has read
FieldsRead ==
    CASE qry.pc = "read_images" -> 1
      [] qry.pc = "read_bm25" -> 2
      [] qry.pc \in {"retrieve", "returned"} -> 3
      [] OTHER -> 0

\* C3 (as claimed): whatever a running query has read of the slot (dense index,
\* then image map, then lexical index) belongs to one fully built corpus.
C3_NoHalfBuiltIndex ==
    FieldsRead > 0 =>
        \E d \in SlotDocs :
            LET b == AgenticBuild(d, config)
            IN /\ qry.vectorStore = b.faiss_store
               /\ FieldsRead >= 2 => qry.image_data_store = b.image_data_store
               /\ FieldsRead >= 3 => qry.bm25_retriever = b.bm25_retriever

\* C4 (as claimed): once an ingestion attempt has ended, the slot's active corpus
\* is the complete previous one or the complete new one, and the previous one
\* when the attempt failed.
C4_AtomicReplacement ==
    \A slot \in {"standard", "agentic"} :
        hist[slot].outcome \in {"ok", "failed"} =>
            /\ ActiveCorpus(slot) \in {hist[slot].before,
                                      BuiltCorpus(slot, hist[slot].doc)}
            /\ hist[slot].outcome = "failed" => ActiveCorpus(slot) = hist[slot].before

\* C5: after a successful ingestion of PDF d the slot's dense index holds exactly
\* the chunks of d, its lexical index (when there is one) exactly the text
\* chunks of d, and its image map exactly the images of d, whatever was
\* ingested, successfully or not, before.
C5_ReplaceNeverMerge ==
    \A slot \in {"standard", "agentic"} :
        hist[slot].outcome = "ok" =>
            LET d == hist[slot].doc
                c == ActiveCorpus(slot)
                lexical == slot = "standard" \/ config.HYBRID_SEARCH_ENABLED
            IN /\ c.faiss_store.present
               /\ c.faiss_store.docstore = ChunksOf(d)
               /\ c.bm25_retriever.present <=> (lexical /\ TextOf(ChunksOf(d)) # {})
               /\ c.bm25_retriever.docs \subseteq ChunksOf(d)
               /\ c.bm25_retriever.present =>
                     c.bm25_retriever.docs = TextOf(ChunksOf(d))
               /\ c.image_data_store = ImagesOf(ChunksOf(d))
               /\ slot = "agentic" =>
                     /\ ras.initialized
                     /\ ras.all_docs = ChunksOf(d)
                     /\ ras.text_docs = TextOf(ChunksOf(d))

\* both slots hold PDF 1 after a successful ingestion over a corpus of PDF 2
C5_Witness ==
    \A slot \in {"standard", "agentic"} :
        /\ hist[slot].outcome = "ok"
        /\ hist[slot].doc = 1
        /\ hist[slot].before.faiss_store.docstore = ChunksOf(2)
        /\ ActiveCorpus(slot).faiss_store.docstore = ChunksOf(1)

-----------------------------------------------------------------------------
(* Properties of retrieval (SpecFusion) *)

\* 1-based position of chunk x in sequence s, 0 when absent
IndexOf(s, x) ==
    IF x \in Range(s) THEN CHOOSE i \in DOMAIN s : s[i] = x /\ \A j \in 1..(i - 1) : s[j] # x
    ELSE 0

NoRepeat(s) == \A i, j \in DOMAIN s : s[i] = s[j] => i = j

\* the candidate lists of the last query: lexical (BM25) and dense (FAISS)
LexCandidates == Take(ret.bm25Order, store.bm25_retriever.k)

DenseCandidates == Take(ret.denseOrder, config.K_DENSE_CANDIDATES)

OnHybridPath == ret.called /\ ret.result.path = "hybrid"

OnDensePath == ret.called /\ ret.result.path = "dense"

\* the chunks a query can return: both candidate lists on the hybrid path,
\* the dense ranking on the dense-only path
Available ==
    IF OnHybridPath THEN Range(LexCandidates) \cup Range(DenseCandidates)
    ELSE Range(ret.denseOrder)

\* C6 (as claimed): at most k chunks are returned; exactly k when at least k
\* distinct chunks are available; all of them, without padding or duplicates,
\* when fewer than k are available.
C6_FusionBound ==
    ret.called =>
        LET docs == ret.result.docs
            n == Cardinality(Available)
        IN /\ Len(docs) <= ret.k
           /\ NoRepeat(docs)
           /\ n >= ret.k => Len(docs) = ret.k
           /\ n < ret.k => Range(docs) = Available

\* C7: a corpus without text chunks has no BM25 retriever, and a query with
\* use_hybrid = TRUE then makes no BM25 call, builds no ensemble and returns
\* exactly what the same query returns with use_hybrid = FALSE.
C7_FallbackCorrectness ==
    TextOf(store.faiss_store.docstore) = {} =>
        /\ ~store.bm25_retriever.present
        /\ (ret.called /\ ret.use_hybrid) =>
              /\ ret.result.bm25_calls = 0
              /\ ret.result.ensemble_weights = <<>>
              /\ ret.result.docs =
                   retrieve_dense_only(Retriever(ret.k, FALSE, ret.denseOrder,
                                                 ret.bm25Order)).docs
              /\ ret.result.docs = Take(ret.denseOrder, ret.k)

C7_Witness ==
    /\ ret.called /\ ret.use_hybrid /\ config.HYBRID_SEARCH_ENABLED
    /\ TextOf(store.faiss_store.docstore) = {}
    /\ Len(ret.result.docs) = 2

\* C8: the hybrid path is taken exactly when HYBRID_SEARCH_ENABLED, a BM25
\* retriever is present and the caller passes use_hybrid; otherwise the dense
\* index is queried exactly once, with the caller's k.
C8_ModeSelection ==
    ret.called =>
        /\ OnHybridPath <=> (config.HYBRID_SEARCH_ENABLED
                             /\ store.bm25_retriever.present /\ ret.use_hybrid)
        /\ ~OnHybridPath =>
              /\ OnDensePath
              /\ ret.result.by_vector_calls = <<ret.k>>
              /\ ret.result.bm25_calls = 0
              /\ ret.result.docs = Take(ret.denseOrder, ret.k)
        /\ OnHybridPath => ret.result.by_vector_calls = <<>>

C8_Witness ==
    /\ OnDensePath /\ ret.use_hybrid /\ store.bm25_retriever.present
    /\ ~config.HYBRID_SEARCH_ENABLED /\ ret.k = 2 /\ Len(ret.result.docs) = 2

\* the fused score of chunk x as the specification states it, times den and
\* times 10: weight(list) / (K + rank + 1), ranks from 0, 0 for a list lacking x
StatedScore(x, lex, dense, wl, wd, K, den) ==
    LET term(list, w) ==
            IF IndexOf(list, x) = 0 THEN 0
            ELSE (w * den) \div (K + (IndexOf(list, x) - 1) + 1)
    IN term(lex, wl) + term(dense, wd)

\* docs are chunks of the candidate lists in descending order of StatedScore
\* with constant K, and no candidate left out scores higher than one returned
SortedByStatedScore(docs, K) ==
    LET den == Prod(K, 1, Max(Len(LexCandidates), Len(DenseCandidates)))
        sc(x) == StatedScore(x, LexCandidates, DenseCandidates,
                             config.BM25_WEIGHT, config.DENSE_WEIGHT, K, den)
    IN /\ Range(docs) \subseteq Range(LexCandidates) \cup Range(DenseCandidates)
       /\ \A i, j \in DOMAIN docs : i < j => sc(docs[i]) >= sc(docs[j])
       /\ \A z \in (Range(LexCandidates) \cup Range(DenseCandidates)) \ Range(docs) :
             \A i \in DOMAIN docs : sc(docs[i]) >= sc(z)

\* no two candidate chunks carry the same page_content
DistinctContents ==
    \A x, y \in Range(LexCandidates) \cup Range(DenseCandidates) :
        Content(x) = Content(y) => x = y

\* C9 (as claimed): on the hybrid path the result is sorted by the fused score
\* computed with BM25_WEIGHT for the lexical list, DENSE_WEIGHT for the dense
\* list and the configured RRF_K_CONSTANT.  Stated for candidate lists whose
\* chunks all differ in page_content, where "distinct chunk" has one meaning.
C9_ReciprocalRankFusion ==
    (OnHybridPath /\ DistinctContents) =>
        /\ ret.result.ensemble_weights = <<config.BM25_WEIGHT, config.DENSE_WEIGHT>>
        /\ SortedByStatedScore(ret.result.docs, config.RRF_K_CONSTANT)

\* the complete fused ranking of the last query's candidate lists when the
\* lexical weight is w (dense weight and RRF constant as in the code)
FusedRanking(w) ==
    weighted_reciprocal_rank(<<LexCandidates, DenseCandidates>>,
                             <<w, config.DENSE_WEIGHT>>, EnsembleDefaultC)

\* C10 (as claimed): raising the lexical weight never moves a chunk that is
\* earlier in the lexical list than in the dense list to a worse fused position.
C10_WeightMonotonicity ==
    OnHybridPath =>
        \A w \in BM25Weights : w > config.BM25_WEIGHT =>
            \A x \in Range(FusedRanking(w)) :
                (/\ IndexOf(LexCandidates, x) > 0
                 /\ IndexOf(DenseCandidates, x) > 0
                 /\ IndexOf(LexCandidates, x) < IndexOf(DenseCandidates, x))
                => IndexOf(FusedRanking(w), x)
                     <= IndexOf(FusedRanking(config.BM25_WEIGHT), x)

\* lexical RRF contribution of x's page_content over the common denominator den:
\* the sum of 1 / (c + rank) over its positions in the lexical list
LexContribution(x, den) ==
    SumIdx({r \in DOMAIN LexCandidates : Content(LexCandidates[r]) = Content(x)},
           [r \in DOMAIN LexCandidates |-> den \div (r + EnsembleDefaultC)])

\* C10 (amended): raising the lexical weight never moves a chunk behind a chunk
\* whose lexical RRF contribution is not larger than its own; the returned docs
\* are the first k of the fused ranking under the configured weight.
C10_PairwiseMonotonicity ==
    OnHybridPath =>
        LET den == Prod(EnsembleDefaultC, 1, Len(LexCandidates))
            now == FusedRanking(config.BM25_WEIGHT)
        IN /\ ret.result.docs = Take(now, ret.k)
           /\ \A w \in BM25Weights : w > config.BM25_WEIGHT =>
                 \A x, y \in Range(now) :
                     (/\ LexContribution(x, den) >= LexContribution(y, den)
                      /\ IndexOf(now, x) < IndexOf(now, y))
                     => IndexOf(FusedRanking(w), x) < IndexOf(FusedRanking(w), y)

\* a query where the amended claim's case happens: a chunk ahead of another with
\* a smaller lexical contribution, which a larger weight moves behind a third one
C10_Witness ==
    /\ OnHybridPath /\ config.BM25_WEIGHT = 1
    /\ \E x, y \in Range(FusedRanking(1)) :
          /\ LexContribution(x, Prod(EnsembleDefaultC, 1, Len(LexCandidates)))
               > LexContribution(y, Prod(EnsembleDefaultC, 1, Len(LexCandidates)))
          /\ IndexOf(FusedRanking(1), x) < IndexOf(FusedRanking(1), y)
          /\ IndexOf(FusedRanking(10), x) > IndexOf(FusedRanking(1), x)

-----------------------------------------------------------------------------
(* api/app.py query_documents_agentic_stream: once the agent's tokens have  *)
(* been streamed, generate() computes the metrics of the final chunk on the *)
(* event loop (lines 396-440).  The agent's search_document tool has called *)
(* MultiModalRAGSystem.query, whose ranked list is ret.result.              *)

\* vectorStore.similarity_search_with_score_by_vector(emb, k) for a query q:
\* (chunk, L2 distance) pairs by increasing distance; the nearest chunk is at
\* distance q.nearest, every other one at q.far >= q.nearest
similarity_search_with_score_by_vector(q, k) ==
    [i \in 1..Min(k, Len(q.denseOrder)) |->
        [doc |-> q.denseOrder[i], score |-> IF i = 1 THEN q.nearest ELSE q.far]]

\* top_similarity taken from the chunk that heads the ranked list
top_similarity_of_first_result(vectorStore, q) ==
    IF ~vectorStore.present \/ q.docs = <<>> THEN 0
    ELSE LET scored == similarity_search_with_score_by_vector(q, Len(q.denseOrder))
             i == CHOOSE j \in DOMAIN scored : scored[j].doc = q.docs[1]
         IN RoundDiv(1000000, 1000 + scored[i].score)

\* lines 402-412: 0.0, replaced by round(1 / (1 + d), 3) of the single nearest
\* chunk; any exception (vectorStore is None) is swallowed and leaves 0.0
top_similarity(vectorStore, q) ==
    IF ~vectorStore.present THEN 0
    ELSE LET scored == similarity_search_with_score_by_vector(q, 1)
         IN IF scored = <<>> THEN 0
            ELSE RoundDiv(1000000, 1000 + scored[1].score)

\* what the agent run leaves in result_collector: the answer and the chunks
\* its search_document call retrieved
result_collector(answer, docs) ==
    [answer |-> answer,
     sources |-> docs,
     num_text_chunks |-> Len(FilterKind(docs, "text")),
     num_images |-> Len(FilterKind(docs, "image"))]

\* lines 417-421: the text chunks on the cited pages, else the first ten
relevant_docs(sources, text_docs) ==
    LET source_pages == {Page(sources[i]) : i \in DOMAIN sources}
        all == InAppendOrder(text_docs)
        on_pages == SelectSeq(all, LAMBDA c : Page(c) \in source_pages)
    IN IF on_pages # <<>> THEN on_pages ELSE Take(all, 10)

\* lines 396-440: full_result
StreamMetadata ==
    \E nearest \in Distances, far \in Distances, answer \in Answers :
        LET q == [denseOrder |-> ret.denseOrder, nearest |-> nearest, far |-> far,
                  docs |-> ret.result.docs]
            rc == result_collector(answer, ret.result.docs)
            sim == top_similarity(ras.vectorStore, q)
            grounding == compute_answer_source_similarity(
                             rc.answer, relevant_docs(rc.sources, ras.text_docs))
        IN /\ ret.called
           /\ gen.pc = "idle"
           /\ ing.pc = "idle"
           /\ nearest <= far
           /\ gen' = [IdleGen EXCEPT
                        !.pc = "streamed",
                        !.nearest = nearest,
                        !.answer = answer,
                        !.embed_calls = embed_text_calls(
                            rc.answer, relevant_docs(rc.sources, ras.text_docs)),
                        !.outcome = [answer |-> rc.answer,
                                     sources |-> rc.sources,
                                     num_images |-> rc.num_images,
                                     num_text_chunks |-> rc.num_text_chunks,
                                     confidence |-> compute_confidence(sim, rc.num_text_chunks),
                                     top_similarity |-> sim,
                                     answer_source_similarity |-> grounding,
                                     is_hallucination |-> grounding < HALLUCINATION_THRESHOLD]]
           /\ UNCHANGED <<config, store, ret, std, ras, disk, ing, qry, hist, proc>>

\* the final chunk is sent and the request ends
StreamFinish ==
    /\ gen.pc = "streamed"
    /\ gen' = IdleGen
    /\ ret' = IdleRet
    /\ UNCHANGED <<config, store, std, ras, disk, ing, qry, hist, proc>>

\* the singleton after a successful initialize(PDF d)
InitializedRas(d, cfg) ==
    LET b == AgenticBuild(d, cfg)
        p == process_and_embedd_docs(d)
    IN [initialized |-> TRUE, vectorStore |-> b.faiss_store,
        bm25_retriever |-> b.bm25_retriever, all_docs |-> p.all_docs,
        text_docs |-> p.text_docs, image_data_store |-> b.image_data_store]

InitStream ==
    /\ config \in {[DefaultConfig EXCEPT !.HYBRID_SEARCH_ENABLED = h] : h \in BOOLEAN}
    /\ \E d \in DocIds :
         /\ ras = InitializedRas(d, config)
         /\ store = [faiss_store |-> ras.vectorStore,
                     bm25_retriever |-> ras.bm25_retriever]
    /\ ret = IdleRet
    /\ gen = IdleGen
    /\ std = EmptyStd /\ disk = EmptyDisk
    /\ ing = IdleIng /\ qry = IdleQry /\ hist = NoHistory
    /\ proc = RunningProc

NextStream == RetrieveMultimodal \/ StreamMetadata \/ StreamFinish

SpecStream == InitStream /\ [][NextStream]_vars

-----------------------------------------------------------------------------
(* Properties of the streamed metrics (SpecStream) *)

\* C11 (as claimed): top_similarity comes from the single nearest dense
\* neighbour alone, whichever path ranked the list; it lies in (0, 1], is 1 at
\* distance 0 and is strictly smaller for every larger distance.
C11_PathIndependentTopSimilarity ==
    gen.pc = "streamed" =>
        LET s == gen.outcome.top_similarity
            q(d) == [denseOrder |-> ret.denseOrder, nearest |-> d, far |-> d,
                     docs |-> ret.result.docs]
        IN /\ s = top_similarity(ras.vectorStore, q(gen.nearest))
           /\ 0 < s /\ s <= 1000
           /\ gen.nearest = 0 => s = 1000
           /\ \A d \in Distances :
                 d > gen.nearest => top_similarity(ras.vectorStore, q(d)) < s

\* C11 (amended): top_similarity is 1 / (1 + d) of the single nearest dense
\* neighbour rounded to 3 decimals, whichever path ranked the list; it lies in
\* (0, 1], is 1 at distance 0, never grows with the distance and is strictly
\* smaller whenever 1 / (1 + d) is smaller by 0.001 or more.
C11_RoundedTopSimilarity ==
    gen.pc = "streamed" =>
        LET s == gen.outcome.top_similarity
            d == gen.nearest
            of(x) == RoundDiv(1000000, 1000 + x)
        IN /\ 2 * (1000 + d) * s >= 2 * 1000000 - (1000 + d)
           /\ 2 * (1000 + d) * s <= 2 * 1000000 + (1000 + d)
           /\ 0 < s /\ s <= 1000
           /\ d = 0 => s = 1000
           /\ \A x \in Distances :
                 /\ x > d => of(x) <= s
                 /\ (x > d /\ 1000 * (x - d) >= ((1000 + x) * (1000 + d) + 999) \div 1000)
                       => of(x) < s

\* a hybrid-path query whose fused list is not headed by the nearest dense
\* neighbour, at a distance where rounding hides a difference
C11_Witness ==
    /\ gen.pc = "streamed"
    /\ OnHybridPath
    /\ ret.result.docs[1] # ret.denseOrder[1]
    /\ gen.nearest = 2334
    /\ gen.outcome.top_similarity = 300

-----------------------------------------------------------------------------
(* rag/core/storage.py load_index and api/app.py startup_event: a restarted *)
(* process starts from the module globals and restores both slots from the  *)
(* snapshots in data/.                                                      *)

\* the files save_index writes for a slot
SnapshotFiles == {"index.faiss", "index.pkl", "images.json"}

\* load_index returning None
NoneLoaded ==
    [status |-> "none", faiss_store |-> NoFaiss, bm25_retriever |-> NoBM25,
     image_data_store |-> {}]

\* load_index with the errors of deserialization propagating to the caller
load_index_without_except(snapshot, cfg) ==
    IF ~snapshot.faiss_store.present THEN NoneLoaded
    ELSE IF snapshot.damaged # {} THEN [NoneLoaded EXCEPT !.status = "raised"]
    ELSE LET all_docs == InAppendOrder(snapshot.faiss_store.docstore)
             text_docs == FilterKind(all_docs, "text")
         IN [status |-> "loaded",
             faiss_store |-> snapshot.faiss_store,
             bm25_retriever |->
                 IF text_docs = <<>> THEN NoBM25
                 ELSE [present |-> TRUE, docs |-> Range(text_docs),
                       k |-> cfg.K_BM25_CANDIDATES, corpus |-> text_docs],
             image_data_store |-> snapshot.image_data_store]

\* load_index that rebuilds BM25 from every chunk of the docstore
load_index_without_type_filter(snapshot, cfg) ==
    IF ~snapshot.faiss_store.present THEN NoneLoaded
    ELSE IF snapshot.damaged # {} THEN NoneLoaded
    ELSE LET all_docs == InAppendOrder(snapshot.faiss_store.docstore)
         IN [status |-> "loaded",
             faiss_store |-> snapshot.faiss_store,
             bm25_retriever |->
                 IF all_docs = <<>> THEN NoBM25
                 ELSE [present |-> TRUE, docs |-> Range(all_docs),
                       k |-> cfg.K_BM25_CANDIDATES, corpus |-> all_docs],
             image_data_store |-> snapshot.image_data_store]

\* load_index that leaves the rebuilt BM25Retriever at the library's k = 4
load_index_with_default_k(snapshot, cfg) ==
    IF ~snapshot.faiss_store.present THEN NoneLoaded
    ELSE IF snapshot.damaged # {} THEN NoneLoaded
    ELSE LET all_docs == InAppendOrder(snapshot.faiss_store.docstore)
             text_docs == FilterKind(all_docs, "text")
         IN [status |-> "loaded",
             faiss_store |-> snapshot.faiss_store,
             bm25_retriever |->
                 IF text_docs = <<>> THEN NoBM25
                 ELSE [present |-> TRUE, docs |-> Range(text_docs),
                       k |-> 4, corpus |-> text_docs],
             image_data_store |-> snapshot.image_data_store]

\* load_index(index_type): None without index.faiss (lines 59-61) and when
\* FAISS.load_local or json.loads raises (lines 95-97); else the stored FAISS
\* index, the image map and a BM25 retriever rebuilt from the text chunks of
\* list(faiss_store.docstore._dict.values())
load_index(snapshot, cfg) ==
    IF ~snapshot.faiss_store.present THEN NoneLoaded
    ELSE IF snapshot.damaged # {} THEN NoneLoaded
    ELSE LET all_docs == InAppendOrder(snapshot.faiss_store.docstore)
             text_docs == FilterKind(all_docs, "text")
         IN [status |-> "loaded",
             faiss_store |-> snapshot.faiss_store,
             bm25_retriever |->
                 IF text_docs = <<>> THEN NoBM25
                 ELSE [present |-> TRUE, docs |-> Range(text_docs),
                       k |-> cfg.K_BM25_CANDIDATES, corpus |-> text_docs],
             image_data_store |-> snapshot.image_data_store]

\* a file of a slot's snapshot is damaged on disk (truncated, overwritten,
\* written by another library version)
Corrupt ==
    \E slot \in {"standard", "agentic"}, file \in SnapshotFiles :
        /\ disk[slot].faiss_store.present
        /\ file \notin disk[slot].damaged
        /\ disk' = [disk EXCEPT ![slot].damaged = @ \cup {file}]
        /\ UNCHANGED <<config, store, ret, gen, std, ras, ing, qry, hist, proc>>

\* nothing was ever uploaded to the slot
Untouched(slot) == disk[slot] = NoSnapshot /\ ActiveCorpus(slot) = EmptyCorpus

\* the globals of the standard slot after startup_event lines 138-143
RestoredStd(loaded) ==
    IF loaded.status = "loaded"
    THEN [vectorstore |-> loaded.faiss_store,
          bm25_retriever |-> loaded.bm25_retriever,
          image_data_store |-> loaded.image_data_store]
    ELSE EmptyStd

\* the singleton after startup_event lines 146-157
RestoredRas(loaded) ==
    IF loaded.status = "loaded"
    THEN LET all_docs == InAppendOrder(loaded.faiss_store.docstore)
         IN [initialized |-> TRUE,
             vectorStore |-> loaded.faiss_store,
             bm25_retriever |-> loaded.bm25_retriever,
             all_docs |-> Range(all_docs),
             text_docs |-> Range(FilterKind(all_docs, "text")),
             image_data_store |-> loaded.image_data_store]
    ELSE EmptyRas

\* what this start of the process did with a slot
Restoration(slot, loaded) ==
    [outcome |-> IF loaded.status = "loaded" THEN "restored" ELSE "cold",
     doc |-> hist[slot].doc,
     before |-> ActiveCorpus(slot)]

\* the process is stopped between two requests and started again: the
\* module globals are those of a fresh import, then startup_event runs; an
\* exception out of it ends the new process
Restart ==
    LET loaded == load_index(disk.standard, config)
        agentic_loaded == load_index(disk.agentic, config)
        crash == "raised" \in {loaded.status, agentic_loaded.status}
    IN /\ ing.pc = "idle"
       /\ proc.state = "running"
       /\ std' = RestoredStd(loaded)
       /\ ras' = IF loaded.status = "raised" THEN EmptyRas
                 ELSE RestoredRas(agentic_loaded)
       /\ hist' = [standard |-> Restoration("standard", loaded),
                   agentic |-> Restoration("agentic", agentic_loaded)]
       /\ proc' = [proc EXCEPT !.state = IF crash THEN "crashed" ELSE "running"]
       /\ UNCHANGED <<config, store, ret, gen, disk, ing, qry>>

\* uploads, damage to the snapshots and restarts.  The slots share no state:
\* each behaviour uploads to one of them and leaves the other untouched
NextRestart ==
    \/ Untouched("agentic") /\ IngestStandard
    \/ Untouched("standard") /\ IngestAgentic
    \/ Corrupt
    \/ Restart

SpecRestart == InitSlot /\ [][NextRestart]_vars

-----------------------------------------------------------------------------
(* Properties of persistence (SpecRestart) *)

Slots == {"standard", "agentic"}

\* startup_event took the slot's corpus from its snapshot, and nothing was
\* uploaded to the slot since
Restored(slot) == hist[slot].outcome = "restored"

\* startup_event found nothing to load for the slot, and nothing was uploaded since
Cold(slot) == hist[slot].outcome = "cold"

C13_NoIndexDrift ==
    \A slot \in Slots :
        /\ DOMAIN disk[slot] = {"faiss_store", "image_data_store", "damaged"}
        /\ Restored(slot) =>
              LET a == ActiveCorpus(slot)
                  text == TextOf(a.faiss_store.docstore)
              IN /\ a.faiss_store = disk[slot].faiss_store
                 /\ a.bm25_retriever.docs = text
                 /\ Range(a.bm25_retriever.corpus) = text
                 /\ Len(a.bm25_retriever.corpus) = Cardinality(text)
                 /\ a.bm25_retriever.present <=> text # {}

\* the agentic slot restored under HYBRID_SEARCH_ENABLED = false, where
\* ingestion had built no lexical index, from a docstore with text and image
C13_Witness ==
    /\ Restored("agentic")
    /\ ~config.HYBRID_SEARCH_ENABLED
    /\ ~hist.agentic.before.bm25_retriever.present
    /\ ras.bm25_retriever.docs = {1, 2, 3}
    /\ ras.vectorStore.docstore = {1, 2, 3, 4}

\* the retriever a query builds on corpus c
RetrieverOn(c, k, use_hybrid, denseOrder, bm25Order) ==
    [k |-> k, use_hybrid |-> use_hybrid,
     faiss_store |-> c.faiss_store, bm25_retriever |-> c.bm25_retriever,
     denseOrder |-> denseOrder, bm25Order |-> bm25Order]

\* the snapshot of the slot is the saved image of corpus c
SavedImageOf(slot, c) ==
    /\ c.faiss_store.present
    /\ disk[slot].faiss_store = c.faiss_store
    /\ disk[slot].image_data_store = c.image_data_store

C15_SnapshotOverwrite ==
    \A slot \in Slots :
        Restored(slot) =>
            \E d \in SlotDocs :
                /\ ActiveCorpus(slot).faiss_store.docstore = ChunksOf(d)
                /\ ActiveCorpus(slot).image_data_store = ImageStoreOf(d)

-----------------------------------------------------------------------------
(* rag/core/rag_pipeline.py _compute_confidence (= metrics.py              *)
(* compute_confidence), applied to inputs drawn from bounded sets.         *)

\* top_similarity values passed to _compute_confidence (thousandths): 0.0 of an
\* empty index and values of 1 / (1 + d), two of them at a rounding tie
Similarities == {0, 1, 200, 299, 300, 335, 500, 666, 875, 999, 1000}

\* largest number of text chunks passed to _compute_confidence
MaxChunks == 7

\* the arguments are bound: top_similarity and num_text_chunks
InitConfidence ==
    /\ \E sim \in Similarities, n \in 0..MaxChunks :
         gen = [IdleGen EXCEPT !.pc = "scoring",
                               !.top_similarity = sim,
                               !.outcome.num_text_chunks = n,
                               !.outcome.top_similarity = sim]
    /\ config = DefaultConfig
    /\ store = NoStore /\ ret = IdleRet
    /\ std = EmptyStd /\ ras = EmptyRas /\ disk = EmptyDisk
    /\ ing = IdleIng /\ qry = IdleQry /\ hist = NoHistory
    /\ proc = RunningProc

\* confidence = _compute_confidence(top_similarity, num_text_chunks)
ComputeConfidence ==
    /\ gen.pc = "scoring"
    /\ gen' = [gen EXCEPT !.pc = "scored",
                          !.outcome.confidence =
                              compute_confidence(gen.top_similarity,
                                                 gen.outcome.num_text_chunks)]
    /\ UNCHANGED <<config, store, ret, std, ras, disk, ing, qry, hist, proc>>

NextConfidence == ComputeConfidence

SpecConfidence == InitConfidence /\ [][NextConfidence]_vars

\* C16: the confidence is 0.7 * min(top_similarity, 1) + 0.3 * min(n / 5, 1)
\* rounded to 3 decimals; it lies in [0, 1], is non-decreasing in the
\* similarity and in the number of chunks, does not change beyond 5 chunks,
\* is 1.0 for (1.0, 5) and 0.0 for (0.0, 0).
C16_ConfidenceRange ==
    gen.pc = "scored" =>
        LET sim == gen.top_similarity
            n == gen.outcome.num_text_chunks
            confidence == gen.outcome.confidence
            exact == 7 * Min(sim, 1000) + 3 * Min(200 * n, 1000)   \* ten-thousandths
        IN /\ 10 * confidence - exact \in -5..5
           /\ confidence \in 0..1000
           /\ \A sim2 \in Similarities, n2 \in 0..MaxChunks :
                 (sim2 >= sim /\ n2 >= n) => compute_confidence(sim2, n2) >= confidence
           /\ n >= 5 => confidence = compute_confidence(sim, 5)
           /\ (sim = 1000 /\ n = 5) => confidence = 1000
           /\ (sim = 0 /\ n = 0) => confidence = 0

\* a confidence computed for more than five chunks, below 1.0
C16_Witness ==
    /\ gen.pc = "scored"
    /\ gen.top_similarity = 666
    /\ gen.outcome.num_text_chunks = 6
    /\ gen.outcome.confidence = 766

-----------------------------------------------------------------------------
(* rag/core/rag_pipeline.py _compute_answer_source_similarity (= metrics.py *)
(* compute_answer_source_similarity), applied to inputs from bounded sets.  *)

\* the text_docs lists of a query: text chunks of one PDF, each at most once,
\* in any order
TextDocLists ==
    UNION {Perms(S) : S \in UNION {SUBSET TextOf(ChunksOf(d)) : d \in DocIds}}

\* the arguments are bound: response.content and text_docs
InitGrounding ==
    /\ \E answer \in Answers, text_docs \in TextDocLists :
         gen = [IdleGen EXCEPT !.pc = "grounding",
                               !.answer = answer,
                               !.context_docs = text_docs]
    /\ config = DefaultConfig
    /\ store = NoStore /\ ret = IdleRet
    /\ std = EmptyStd /\ ras = EmptyRas /\ disk = EmptyDisk
    /\ ing = IdleIng /\ qry = IdleQry /\ hist = NoHistory
    /\ proc = RunningProc

\* answer_source_similarity = _compute_answer_source_similarity(answer, text_docs)
ComputeGrounding ==
    /\ gen.pc = "grounding"
    /\ gen' = [gen EXCEPT !.pc = "grounded",
                          !.embed_calls = embed_text_calls(gen.answer, gen.context_docs),
                          !.outcome.answer_source_similarity =
                              compute_answer_source_similarity(gen.answer,
                                                               gen.context_docs)]
    /\ UNCHANGED <<config, store, ret, std, ras, disk, ing, qry, hist, proc>>

NextGrounding == ComputeGrounding

SpecGrounding == InitGrounding /\ [][NextGrounding]_vars

\* C17: the grounding score is 0.0, with no call of the embedder, when there
\* is no text chunk or the answer is blank; otherwise it is the largest
\* similarity between the answer and a chunk, and 0.0 when every similarity is
\* negative; it lies in [0, 1].
C17_GroundingScore ==
    gen.pc = "grounded" =>
        LET text_docs == gen.context_docs
            score == gen.outcome.answer_source_similarity
            sims == {AnswerDot(gen.answer, text_docs[i]) : i \in DOMAIN text_docs}
        IN /\ score \in 0..1000
           /\ (text_docs = <<>> \/ gen.answer = "blank") =>
                 (score = 0 /\ gen.embed_calls = 0)
           /\ (text_docs # <<>> /\ gen.answer # "blank") =>
                 /\ \A x \in sims : score >= x
                 /\ score \in sims \cup {0}
                 /\ score = 0 <=> \A x \in sims : x <= 0
                 /\ gen.embed_calls = 1 + Len(text_docs)

\* an answer nearest to the last of three chunks: the score is that chunk's
C17_Witness ==
    /\ gen.pc = "grounded"
    /\ gen.context_docs = <<3, 2, 1>>
    /\ gen.answer = "grounded"
    /\ gen.outcome.answer_source_similarity = 850

-----------------------------------------------------------------------------
(* rag/core/config.py lines 135-138: the configuration is validated when   *)
(* the module is imported, which api/app.py does before it defines a route. *)

\* PDFConfig.validate()
PDFConfig_validate(pdf) ==
    /\ pdf.CHUNK_SIZE > 0
    /\ pdf.CHUNK_OVERLAP >= 0
    /\ pdf.CHUNK_OVERLAP < pdf.CHUNK_SIZE

\* values the environment can set: BM25_WEIGHT and DENSE_WEIGHT (tenths)
EnvWeights == {-1, 4, 11}

\* K_TOTAL
EnvKTotals == {0, 5}

\* K_BM25_CANDIDATES and K_DENSE_CANDIDATES
EnvCandidateCounts == {3, 10}

\* RRF_K_CONSTANT
EnvRRFConstants == {-5, 0, 60}

\* MIN_SIMILARITY_THRESHOLD (thousandths)
EnvThresholds == {-100, 300, 1500}

\* PDF_CHUNK_SIZE and PDF_CHUNK_OVERLAP
EnvPDFConfigs ==
    {DefaultPDFConfig,
     [CHUNK_SIZE |-> 0, CHUNK_OVERLAP |-> 0],
     [CHUNK_SIZE |-> 1000, CHUNK_OVERLAP |-> -1],
     [CHUNK_SIZE |-> 500, CHUNK_OVERLAP |-> 500]}

\* the class attributes of HybridSearchConfig, as os.getenv and int / float
\* leave them
EnvConfigs ==
    [HYBRID_SEARCH_ENABLED : BOOLEAN,
     BM25_WEIGHT : EnvWeights,
     DENSE_WEIGHT : EnvWeights,
     K_TOTAL : EnvKTotals,
     K_BM25_CANDIDATES : EnvCandidateCounts,
     K_DENSE_CANDIDATES : EnvCandidateCounts,
     RRF_K_CONSTANT : EnvRRFConstants,
     MIN_SIMILARITY_THRESHOLD : EnvThresholds]

\* the interpreter has evaluated the class bodies of config.py
InitStartup ==
    /\ config \in EnvConfigs
    /\ proc \in [state : {"importing"}, pdf : EnvPDFConfigs]
    /\ std = EmptyStd /\ ras = EmptyRas /\ disk = EmptyDisk
    /\ ing = IdleIng /\ qry = IdleQry /\ hist = NoHistory
    /\ store = NoStore /\ ret = IdleRet /\ gen = IdleGen

\* lines 136-138: a failed assertion ends the import and with it the process;
\* otherwise the application starts (no snapshot to restore) and serves
ImportConfig ==
    /\ proc.state = "importing"
    /\ proc' = [proc EXCEPT !.state =
                   IF PDFConfig_validate(proc.pdf) /\ validate(config)
                   THEN "running" ELSE "refused"]
    /\ UNCHANGED <<config, store, ret, gen, std, ras, disk, ing, qry, hist>>

\* requests reach the handlers of a running process only
Serving == proc.state = "running"

NextStartup ==
    \/ ImportConfig
    \/ Serving /\ IngestStandard
    \/ Serving /\ QueryStandard

SpecStartup == InitStartup /\ [][NextStartup]_vars

\* C19 (as claimed): a process that runs, and every upload or query it has
\* served, has a configuration inside every stated range: weights in [0, 1],
\* K_TOTAL positive, candidate counts at least K_TOTAL, chunk overlap below a
\* positive chunk size, MIN_SIMILARITY_THRESHOLD in [0, 1], RRF constant positive.
C19_EagerConfigurationValidation ==
    (proc.state = "running" \/ qry.std_view # "none" \/ hist.standard.outcome # "none") =>
        /\ config.BM25_WEIGHT \in 0..10
        /\ config.DENSE_WEIGHT \in 0..10
        /\ config.K_TOTAL > 0
        /\ config.K_BM25_CANDIDATES >= config.K_TOTAL
        /\ config.K_DENSE_CANDIDATES >= config.K_TOTAL
        /\ proc.pdf.CHUNK_SIZE > 0
        /\ proc.pdf.CHUNK_OVERLAP \in 0..(proc.pdf.CHUNK_SIZE - 1)
        /\ config.MIN_SIMILARITY_THRESHOLD \in 0..1000
        /\ config.RRF_K_CONSTANT > 0

-----------------------------------------------------------------------------
(* Properties of repeated queries (SpecRepeat) *)

-----------------------------------------------------------------------------
(* api/app.py /ingest and /query on the standard slot, with a PDF that has  *)
(* neither text nor images among the uploads.                               *)

\* the PDF whose pages yield no chunk
BlankDoc == 0

\* FAISS.from_embeddings unpacks zip(*text_embeddings) into texts and
\* embeddings, which raises for an empty list
from_embeddings_raises(all_docs) == all_docs = {}

\* POST /ingest of the blank PDF: process_and_embedd_docs returns empty lists,
\* create_hybrid_retrievers raises in create_faiss_vectorstore, the handler
\* answers 500 before it assigns a global or saves
IngestBlankStandard ==
    LET p == process_and_embedd_docs(BlankDoc)
    IN /\ ing.pc = "idle"
       /\ from_embeddings_raises(p.all_docs)
       /\ hist' = [hist EXCEPT !.standard =
                      [outcome |-> "failed", doc |-> BlankDoc,
                       before |-> ActiveCorpus("standard")]]
       /\ UNCHANGED <<config, store, ret, gen, std, ras, disk, ing, qry, proc>>

\* the dense rankings of the two questions asked on /query: one nearest to the
\* first chunk of the document, one nearest to the last
QuestionRankings(docstore) ==
    LET s == InAppendOrder(docstore)
    IN {s, [i \in DOMAIN s |-> s[Len(s) + 1 - i]]}

\* POST /query, the whole handler: 400 without a vectorstore, else
\* MultiModalRAG(k = 5).generate() on the three globals; both questions rank
\* the text chunks lexically in corpus order
QueryDocuments ==
    \E denseOrder \in QuestionRankings(std.vectorstore.docstore),
       dist \in Distances, answer \in Answers :
        LET bm25Order == InAppendOrder(std.bm25_retriever.docs)
            r == RetrieverOn(ActiveCorpus("standard"), PipelineK, TRUE,
                             denseOrder, bm25Order)
            res == retrieval_result(r, config, dist)
            rejected == rejects(res.top_similarity, config)
        IN /\ ing.pc = "idle"
           /\ gen.pc = "idle"
           /\ IF ~std.vectorstore.present
              THEN /\ qry' = [qry EXCEPT !.std_view = "refused"]
                   /\ gen' = IdleGen
              ELSE /\ qry' = [qry EXCEPT !.std_view = "served"]
                   /\ gen' = [IdleGen EXCEPT
                                !.pc = "done",
                                !.context_docs = res.docs,
                                !.top_similarity = res.top_similarity,
                                !.nearest = dist,
                                !.branch = IF rejected THEN "rejected" ELSE "admitted",
                                !.llm_calls = IF rejected THEN 0 ELSE 1,
                                !.answer = IF rejected THEN "none" ELSE answer,
                                !.embed_calls =
                                    IF rejected THEN 0
                                    ELSE embed_text_calls(answer,
                                                          FilterKind(res.docs, "text")),
                                !.outcome =
                                    IF rejected THEN RejectedOutcome(res.top_similarity)
                                    ELSE AdmittedOutcome(answer, res.docs,
                                                         res.top_similarity)]
           /\ UNCHANGED <<config, store, ret, std, ras, disk, ing, hist, proc>>

InitBlank ==
    /\ config \in {[DefaultConfig EXCEPT !.MIN_SIMILARITY_THRESHOLD = t] : t \in Thresholds}
    /\ std = EmptyStd /\ ras = EmptyRas /\ disk = EmptyDisk
    /\ ing = IdleIng /\ qry = IdleQry /\ hist = NoHistory
    /\ store = NoStore /\ ret = IdleRet /\ gen = IdleGen
    /\ proc = RunningProc

\* the handlers have no await: the event loop runs one request at a time
NextBlank ==
    \/ gen.pc = "idle" /\ IngestStandard
    \/ gen.pc = "idle" /\ IngestBlankStandard
    \/ QueryDocuments
    \/ GenReturn

SpecBlank == InitBlank /\ [][NextBlank]_vars

\* C21 (as claimed): a query on the standard slot whose last upload was the
\* PDF without chunks is served: it returns an empty chunk list and
\* top_similarity = 0.0, and the guardrail rejects it without an LLM call.
C21_EmptyCorpus ==
    [][(/\ hist.standard.doc = BlankDoc
        /\ hist.standard.outcome # "none"
        /\ hist' = hist
        /\ (gen'.pc = "done" \/ qry' # qry))
       => /\ qry'.std_view = "served"
          /\ gen'.context_docs = <<>>
          /\ gen'.outcome.sources = <<>>
          /\ gen'.outcome.top_similarity = 0
          /\ gen'.branch = "rejected"
          /\ gen'.llm_calls = 0]_vars

\* C22 (as claimed): a /query is refused with 400, with no retrieval and no
\* generation, whenever the standard slot has no active corpus, and also
\* whenever no ingestion into the slot has succeeded yet (the last one did not,
\* and the slot was empty before it).
C22_NoQueryWithoutCorpus ==
    [][(/\ hist' = hist
        /\ (gen'.pc = "done" \/ qry' # qry)
        /\ \/ ~std.vectorstore.present
           \/ /\ hist.standard.outcome # "ok"
              /\ ~hist.standard.before.faiss_store.present)
       => /\ qry'.std_view = "refused"
          /\ gen' = IdleGen]_vars


-----------------------------------------------------------------------------
(* Queries beside ingestions, on either slot: /query as a whole, the        *)
(* streaming agentic query statement by statement, and a caller that goes   *)
(* away before the answer.                                                  *)

\* the client of the streaming query disconnects: the generator is closed at
\* whatever statement the query had reached
QueryAbandon ==
    /\ qry.pc \notin {"idle", "returned", "raised", "refused"}
    /\ qry' = [IdleQry EXCEPT !.std_view = qry.std_view]
    /\ UNCHANGED <<config, store, ret, gen, std, ras, disk, ing, hist, proc>>

\* a behaviour uses one slot: the standard one with /ingest and /query, or the
\* agentic one with /ingest-agentic and /query-agentic-stream
NextReadOnly ==
    \/ hist.agentic = NoAttempt /\ qry.pc = "idle" /\ gen.pc = "idle" /\ IngestStandard
    \/ hist.agentic = NoAttempt /\ qry.pc = "idle" /\ QueryDocuments
    \/ GenReturn
    \/ hist.standard = NoAttempt /\ qry.std_view = "none" /\ IngestAgentic
    \/ hist.standard = NoAttempt /\ qry.std_view = "none" /\ QueryAgenticStream
    \/ QueryAbandon

SpecReadOnly == InitSlot /\ [][NextReadOnly]_vars

\* C23: a step of a query (served, rejected by the guardrail, refused, failed
\* or abandoned) changes no index, no image map and no snapshot of either
\* slot; whatever changes one of them is a step of an ingestion.
C23_QueriesReadOnly ==
    /\ [][(qry' # qry \/ gen' # gen) => (std' = std /\ ras' = ras /\ disk' = disk)]_vars
    /\ [][(std' # std \/ ras' # ras \/ disk' # disk) => (IngestStandard \/ IngestAgentic)]_vars

\* a streaming query has retrieved from the agentic corpus of PDF 1, which is
\* still the active one and the saved one
C23_Witness ==
    /\ qry.pc = "returned"
    /\ ras.initialized
    /\ qry.vectorStore = ras.vectorStore
    /\ ras.vectorStore.docstore = {1, 2, 3, 4}
    /\ disk.agentic.faiss_store = ras.vectorStore
    /\ disk.agentic.image_data_store = ras.image_data_store


-----------------------------------------------------------------------------
(* Scenario A: a document of five text chunks in the agentic slot, default  *)
(* settings, and a question that repeats the text of its third chunk.       *)

ScenarioDoc == 5

\* the chunk whose text the question repeats
VerbatimChunk == 53

\* squared L2 distance of the second nearest chunk (thousandths)
RunnerUpDistances == {500, 4000}

\* search_document: rag_system.query(query, k=5), then the metadata block of the
\* stream endpoint computes top_similarity; the question embeds to the vector
\* of the verbatim chunk, so that chunk heads the dense ranking at distance 0
QueryVerbatim ==
    /\ ~ret.called
    /\ gen.pc = "idle"
    /\ \E others \in Perms(ras.vectorStore.docstore \ {VerbatimChunk}),
          bm25Order \in Perms(ras.bm25_retriever.docs),
          far \in RunnerUpDistances :
           LET denseOrder == <<VerbatimChunk>> \o others
               r == RetrieverOn([faiss_store |-> ras.vectorStore,
                                 bm25_retriever |-> ras.bm25_retriever],
                                PipelineK, TRUE, denseOrder, bm25Order)
               res == retrieve_multimodal(r, config)
               q == [denseOrder |-> denseOrder, nearest |-> 0, far |-> far,
                     docs |-> res.docs]
           IN /\ ret' = [called |-> TRUE, k |-> PipelineK, use_hybrid |-> TRUE,
                         denseOrder |-> denseOrder, bm25Order |-> bm25Order,
                         earlier |-> ret.earlier, result |-> res]
              /\ gen' = [IdleGen EXCEPT !.pc = "streamed",
                                        !.nearest = 0,
                                        !.top_similarity = top_similarity(ras.vectorStore, q)]
              /\ UNCHANGED <<config, store, std, ras, disk, ing, qry, hist, proc>>

InitScenario ==
    /\ config = DefaultConfig
    /\ ras = InitializedRas(ScenarioDoc, config)
    /\ store = [faiss_store |-> ras.vectorStore, bm25_retriever |-> ras.bm25_retriever]
    /\ ret = IdleRet
    /\ gen = IdleGen
    /\ std = EmptyStd /\ disk = EmptyDisk
    /\ ing = IdleIng /\ qry = IdleQry /\ hist = NoHistory
    /\ proc = RunningProc

NextScenario == QueryVerbatim \/ StreamFinish

SpecScenario == InitScenario /\ [][NextScenario]_vars

\* rank of chunk c in the list s (Len(s) + 1 when absent)
RankIn(s, c) ==
    IF \E i \in DOMAIN s : s[i] = c
    THEN CHOOSE i \in DOMAIN s : s[i] = c
    ELSE Len(s) + 1

\* C24 (as claimed): the chunk the question repeats verbatim is rank 1 of the
\* fused result wherever the other four chunks stand in the dense and the
\* lexical candidate list, and top_similarity is 1.0.
C24_ScenarioA ==
    ret.called =>
        /\ ret.result.docs[1] = VerbatimChunk
        /\ gen.top_similarity = 1000

\* C24 (amended): the chunk the question repeats verbatim is rank 1 of the
\* fused result whenever it is first or second in the lexical candidate list,
\* wherever the other four chunks stand in the two lists, and top_similarity
\* is 1.0 wherever any chunk stands.
C24_ScenarioALexicalTopTwo ==
    ret.called =>
        /\ RankIn(ret.bm25Order, VerbatimChunk) <= 2 => ret.result.docs[1] = VerbatimChunk
        /\ gen.top_similarity = 1000

\* the verbatim chunk is second in the lexical list, behind the chunk that is
\* second in the dense list, and still heads the fused result
C24_Witness ==
    /\ ret.called
    /\ ret.bm25Order[2] = VerbatimChunk
    /\ ret.bm25Order[1] = ret.denseOrder[2]
    /\ ret.result.docs[1] = VerbatimChunk
    /\ Len(ret.result.docs) = 5
    /\ gen.top_similarity = 1000


-----------------------------------------------------------------------------
(* rag/core/embedder.py: get_embedder, an lru_cache(maxsize=1) around       *)
(* CLIPEmbedder(). Every caller runs on the event loop, one after another.  *)

\* calls between two cache_clear()
MaxCalls == 6

\* CLIPEmbedder objects built in one process
MaxInstances == 5

\* get_embedder without the lru_cache decorator
GetEmbedder_uncached ==
    LET e == proc.embedder
    IN /\ e.hits + e.misses < MaxCalls
       /\ e.instances < MaxInstances
       /\ \E loaded \in BOOLEAN :
            proc' = [proc EXCEPT !.embedder =
                        IF loaded
                        THEN [e EXCEPT !.misses = @ + 1,
                                       !.instances = @ + 1,
                                       !.built = @ + 1,
                                       !.returned = @ \cup {e.instances + 1},
                                       !.last = "constructed"]
                        ELSE [e EXCEPT !.misses = @ + 1, !.last = "raised"]]
       /\ UNCHANGED <<config, store, ret, gen, std, ras, disk, ing, qry, hist>>

\* get_embedder(): a hit returns the cached instance; a miss calls
\* CLIPEmbedder(), whose from_pretrained loads the model or raises, and caches
\* the instance only when it was built
GetEmbedder ==
    LET e == proc.embedder
    IN /\ e.hits + e.misses < MaxCalls
       /\ IF e.cache # 0
          THEN proc' = [proc EXCEPT !.embedder =
                           [e EXCEPT !.hits = @ + 1,
                                     !.returned = @ \cup {e.cache},
                                     !.last = "hit"]]
          ELSE /\ e.instances < MaxInstances
               /\ \E loaded \in BOOLEAN :
                    proc' = [proc EXCEPT !.embedder =
                                IF loaded
                                THEN [e EXCEPT !.misses = @ + 1,
                                               !.cache = e.instances + 1,
                                               !.instances = @ + 1,
                                               !.built = @ + 1,
                                               !.returned = @ \cup {e.instances + 1},
                                               !.last = "constructed"]
                                ELSE [e EXCEPT !.misses = @ + 1, !.last = "raised"]]
       /\ UNCHANGED <<config, store, ret, gen, std, ras, disk, ing, qry, hist>>

\* get_embedder.cache_clear()
CacheClear ==
    /\ proc' = [proc EXCEPT !.embedder =
                   [@ EXCEPT !.cache = 0, !.built = 0, !.hits = 0, !.misses = 0,
                             !.returned = {}, !.last = "cleared"]]
    /\ UNCHANGED <<config, store, ret, gen, std, ras, disk, ing, qry, hist>>

InitEmbedder ==
    /\ proc = RunningProc
    /\ config = DefaultConfig
    /\ store = NoStore /\ ret = IdleRet /\ gen = IdleGen
    /\ std = EmptyStd /\ ras = EmptyRas /\ disk = EmptyDisk
    /\ ing = IdleIng /\ qry = IdleQry /\ hist = NoHistory

NextEmbedder == GetEmbedder \/ CacheClear

SpecEmbedder == InitEmbedder /\ [][NextEmbedder]_vars

\* C25: between two cache_clear() at most one CLIPEmbedder is built and every
\* call returns that one instance; a call that returns while the cache is
\* empty (the first call, or the next one after cache_clear()) builds exactly
\* one instance, different from every earlier one.
C25_EmbedderSingleton ==
    /\ [](/\ proc.embedder.built <= 1
          /\ Cardinality(proc.embedder.returned) <= 1
          /\ proc.embedder.cache # 0 => proc.embedder.returned \subseteq {proc.embedder.cache})
    /\ [][(proc.embedder.cache = 0 /\ proc'.embedder.last \in {"hit", "constructed"}
           /\ proc' # proc)
          => /\ proc'.embedder.last = "constructed"
             /\ proc'.embedder.instances = proc.embedder.instances + 1
             /\ proc'.embedder.cache = proc'.embedder.instances
             /\ proc'.embedder.returned = {proc'.embedder.cache}]_vars

\* a second instance was built after a cache_clear() and a later call got it
\* from the cache
C25_Witness ==
    /\ proc.embedder.instances = 2
    /\ proc.embedder.cache = 2
    /\ proc.embedder.built = 1
    /\ proc.embedder.hits >= 1
    /\ proc.embedder.returned = {2}


-----------------------------------------------------------------------------
(* Memory against disk once a request has returned (SpecSlot) *)

\* C26 (as claimed): once an ingestion request into a slot has returned, with
\* 200 or with an error raised at any step, the dense index and the image map
\* the slot holds in memory are the ones of its snapshot on disk.
C26_MemoryAndDiskAgree ==
    \A slot \in Slots :
        (hist[slot].outcome \in {"ok", "failed"} /\ (slot = "agentic" => ing.pc = "idle"))
        => /\ ActiveCorpus(slot).faiss_store = disk[slot].faiss_store
           /\ ActiveCorpus(slot).image_data_store = disk[slot].image_data_store


-----------------------------------------------------------------------------
(* What load_index can return from the snapshots on disk (SpecRestart) *)

\* C27 (as claimed): whenever load_index returns a snapshot of a slot, its
\* docstore and its image map are those of one ingested PDF, and every image
\* chunk of the docstore has its image_id in the image map.
C27_SnapshotSelfConsistency ==
    \A slot \in Slots :
        LET loaded == load_index(disk[slot], config)
        IN loaded.status = "loaded" =>
             /\ ImagesOf(loaded.faiss_store.docstore) \subseteq loaded.image_data_store
             /\ \E d \in SlotDocs :
                   /\ loaded.faiss_store.docstore = ChunksOf(d)
                   /\ loaded.image_data_store = ImageStoreOf(d)


-----------------------------------------------------------------------------
(* /query-agentic-stream beside /ingest-agentic: the agent retrieves, its   *)
(* tokens are streamed, and between two tokens the event loop can serve a   *)
(* whole ingestion before generate() reaches the metadata block.            *)

\* search_document -> rag_system.query(question, k=5): the retriever is built
\* on the indexes the singleton holds now (store keeps them, as the retriever
\* object does)
StreamRetrieve ==
    /\ ~ret.called
    /\ gen.pc = "idle"
    /\ ing.pc = "idle"
    /\ ras.initialized
    /\ \E denseOrder \in QuestionRankings(ras.vectorStore.docstore) :
         LET used == [faiss_store |-> ras.vectorStore,
                      bm25_retriever |-> ras.bm25_retriever]
             bm25Order == InAppendOrder(ras.bm25_retriever.docs)
         IN /\ store' = used
            /\ ret' = [called |-> TRUE, k |-> PipelineK, use_hybrid |-> TRUE,
                       denseOrder |-> denseOrder, bm25Order |-> bm25Order,
                       earlier |-> ret.earlier,
                       result |-> retrieve_multimodal(
                           RetrieverOn(used, PipelineK, TRUE, denseOrder, bm25Order),
                           config)]
    /\ UNCHANGED <<config, gen, std, ras, disk, ing, qry, hist, proc>>

NextStreamIngest ==
    \/ StreamRetrieve
    \/ gen.pc = "idle" /\ IngestAgentic
    \/ StreamMetadata
    \/ StreamFinish

SpecStreamIngest == InitStream /\ [][NextStreamIngest]_vars

\* C28 (as claimed): the metadata of a stream (top_similarity, grounding score,
\* hallucination flag, confidence) has the values computed on the corpus the
\* stream's retrieval used, also when an ingestion into the agentic slot has
\* ended in between.
C28_StreamOneCorpus ==
    gen.pc = "streamed" =>
        LET q == [denseOrder |-> ret.denseOrder, nearest |-> gen.nearest,
                  far |-> gen.nearest, docs |-> ret.result.docs]
            sim == top_similarity(store.faiss_store, q)
            grounding == compute_answer_source_similarity(
                             gen.answer,
                             relevant_docs(gen.outcome.sources,
                                           TextOf(store.faiss_store.docstore)))
        IN /\ gen.outcome.top_similarity = sim
           /\ gen.outcome.answer_source_similarity = grounding
           /\ gen.outcome.is_hallucination = (grounding < HALLUCINATION_THRESHOLD)
           /\ gen.outcome.confidence = compute_confidence(sim, gen.outcome.num_text_chunks)


-----------------------------------------------------------------------------
(* Both slots in use in one process: uploads to either, restarts, and the   *)
(* retrieval of a query on either.                                          *)

\* POST /query: MultiModalRAG is built on the three globals and its retriever
\* ranks their chunks (k = 5)
RetrieveStandard ==
    /\ ~ret.called
    /\ ing.pc = "idle"
    /\ std.vectorstore.present
    /\ \E denseOrder \in QuestionRankings(std.vectorstore.docstore) :
         LET used == [faiss_store |-> std.vectorstore,
                      bm25_retriever |-> std.bm25_retriever]
             bm25Order == InAppendOrder(std.bm25_retriever.docs)
         IN /\ store' = used
            /\ ret' = [called |-> TRUE, k |-> PipelineK, use_hybrid |-> TRUE,
                       denseOrder |-> denseOrder, bm25Order |-> bm25Order,
                       earlier |-> ret.earlier,
                       result |-> retrieve_multimodal(
                           RetrieverOn(used, PipelineK, TRUE, denseOrder, bm25Order),
                           config)]
    /\ qry' = [qry EXCEPT !.std_view = "served"]
    /\ UNCHANGED <<config, gen, std, ras, disk, ing, hist, proc>>

\* the response is sent; the retriever and what it referred to are dropped
QueryEnd ==
    /\ ret.called
    /\ ret' = IdleRet
    /\ store' = NoStore
    /\ qry' = IdleQry
    /\ UNCHANGED <<config, gen, std, ras, disk, ing, hist, proc>>

NextIndependence ==
    \/ ~ret.called /\ IngestStandard
    \/ ~ret.called /\ IngestAgentic
    \/ ~ret.called /\ Restart
    \/ RetrieveStandard
    \/ StreamRetrieve
    \/ QueryEnd

SpecIndependence == InitSlot /\ [][NextIndependence]_vars

\* what a slot is made of: its corpus in memory, the flag, its snapshot
SlotState(slot) ==
    IF slot = "standard" THEN <<std, disk.standard>> ELSE <<ras, disk.agentic>>

\* C29: a step of /ingest (its save included) changes nothing of the agentic
\* slot, a step of /ingest-agentic changes nothing of the standard slot, a
\* start of the process changes no snapshot and gives each slot what
\* load_index finds in its own folder, and a query returns chunks of the
\* docstore of the slot it was put to, none that only the other slot holds.
C29_SlotIndependence ==
    /\ [][(hist'.standard # hist.standard /\ hist'.standard.outcome \in {"ok", "failed"})
          => SlotState("agentic")' = SlotState("agentic")]_vars
    /\ [][ing' # ing => SlotState("standard")' = SlotState("standard")]_vars
    /\ [][(hist' # hist /\ \A slot \in Slots : hist'[slot].outcome \in {"restored", "cold"})
          => /\ disk' = disk
             /\ std' = RestoredStd(load_index(disk.standard, config))
             /\ ras' = RestoredRas(load_index(disk.agentic, config))]_vars
    /\ [][(~ret.called /\ ret'.called)
          => Range(ret'.result.docs) \subseteq
                (IF qry' # qry THEN std.vectorstore.docstore
                               ELSE ras.vectorStore.docstore)]_vars

\* the slots hold different documents, each with its own snapshot, and a query
\* on the standard slot has returned chunks of its document
C29_Witness ==
    /\ std.vectorstore.docstore = {1, 2, 3, 4}
    /\ ras.vectorStore.docstore = {8, 9}
    /\ ras.initialized
    /\ disk.standard.faiss_store = std.vectorstore
    /\ disk.agentic.faiss_store = ras.vectorStore
    /\ ret.called /\ qry.std_view = "served"
    /\ Range(ret.result.docs) = {1, 2, 3, 4}


-----------------------------------------------------------------------------
(* rag/agent: what search_document writes into an observation and what      *)
(* agent_node counts in the observations of a run.                          *)

\* largest number of chunks one search_document call lists
MaxListed == 4

\* retrieved_docs of a search_document call: the first chunks of some ranking
\* of an uploaded PDF
RetrievedLists ==
    UNION {{Take(p, n) : p \in Perms(ChunksOf(d)), n \in 0..MaxListed} : d \in DocIds}

\* search_document lines 46-79: "No relevant information ..." for an empty
\* list; else "Text Content:" and one "[Page p]: <content>" line per text
\* chunk, then "Images Found:" and one "[Page p]: Image <id>" line per image
\* chunk, then the "[Retrieved ...]" line
search_document(retrieved_docs) ==
    LET text_docs == FilterKind(retrieved_docs, "text")
        image_docs == FilterKind(retrieved_docs, "image")
        line(c) == [kind |-> Kind(c), page |-> Page(c)]
    IN [text_header |-> text_docs # <<>>,
        images_header |-> image_docs # <<>>,
        lines |-> [i \in DOMAIN text_docs |-> line(text_docs[i])]
                  \o [i \in DOMAIN image_docs |-> line(image_docs[i])]]

\* re.findall(r'\[Page (\d+)\]:', observation) under "Text Content:": every
\* "[Page p]:" of the observation, the image lines included
page_matches(observation) ==
    IF observation.text_header THEN observation.lines ELSE <<>>

\* re.findall(r'\[Page (\d+)\]: Image', observation) under "Images Found:"
image_matches(observation) ==
    IF observation.images_header
    THEN SelectSeq(observation.lines, LAMBDA l : l.kind = "image")
    ELSE <<>>

RECURSIVE agent_node(_)
\* agent_node lines 95-126 over the intermediate steps: sources and the two
\* counters
agent_node(observations) ==
    IF observations = <<>>
    THEN [sources |-> <<>>, num_text_chunks |-> 0, num_images |-> 0]
    ELSE LET n == Len(observations)
             before == agent_node(SubSeq(observations, 1, n - 1))
             pm == page_matches(observations[n])
             im == image_matches(observations[n])
         IN [sources |-> before.sources
                         \o [i \in DOMAIN pm |-> [page |-> pm[i].page, type |-> "text"]]
                         \o [i \in DOMAIN im |-> [page |-> im[i].page, type |-> "image"]],
             num_text_chunks |-> before.num_text_chunks + Len(pm),
             num_images |-> before.num_images + Len(im)]

\* the lists the agent's search_document calls retrieved, in call order
ToolCalls ==
    (IF ret.earlier.asked THEN <<ret.earlier.docs>> ELSE <<>>) \o <<ret.result.docs>>

\* the agent has called search_document once or twice
InitAccounting ==
    /\ \E first \in {NoEarlier} \cup {[asked |-> TRUE, docs |-> l] : l \in RetrievedLists},
          last \in RetrievedLists :
         ret = [IdleRet EXCEPT !.called = TRUE, !.k = PipelineK, !.use_hybrid = TRUE,
                               !.earlier = first, !.result.docs = last]
    /\ gen = IdleGen
    /\ config = DefaultConfig
    /\ store = NoStore
    /\ std = EmptyStd /\ ras = EmptyRas /\ disk = EmptyDisk
    /\ ing = IdleIng /\ qry = IdleQry /\ hist = NoHistory
    /\ proc = RunningProc

\* agent_node after agent_executor.invoke returned its intermediate steps
AgentNode ==
    LET observations == [i \in DOMAIN ToolCalls |-> search_document(ToolCalls[i])]
        counted == agent_node(observations)
    IN /\ gen.pc = "idle"
       /\ gen' = [IdleGen EXCEPT !.pc = "done",
                                 !.outcome.sources = counted.sources,
                                 !.outcome.num_text_chunks = counted.num_text_chunks,
                                 !.outcome.num_images = counted.num_images]
       /\ UNCHANGED <<config, store, ret, std, ras, disk, ing, qry, hist, proc>>

NextAccounting == AgentNode

SpecAccounting == InitAccounting /\ [][NextAccounting]_vars

RECURSIVE Flatten(_)
\* the chunks of the lists, one list after the other
Flatten(lists) ==
    IF lists = <<>> THEN <<>>
    ELSE Flatten(SubSeq(lists, 1, Len(lists) - 1)) \o lists[Len(lists)]

\* the entries of sources with the given type
SourcesOfType(sources, type) == SelectSeq(sources, LAMBDA e : e.type = type)

\* C30 (as claimed): num_text_chunks is the number of text chunks the
\* search_document observations list, num_images the number of image chunks,
\* and sources has one entry per listed chunk, of the chunk's type and page.
C30_AgenticChunkAccounting ==
    gen.pc = "done" =>
        LET listed == Flatten(ToolCalls)
            text == FilterKind(listed, "text")
            images == FilterKind(listed, "image")
            out == gen.outcome
        IN /\ out.num_text_chunks = Len(text)
           /\ out.num_images = Len(images)
           /\ Len(out.sources) = Len(listed)
           /\ LET st == SourcesOfType(out.sources, "text")
                  si == SourcesOfType(out.sources, "image")
              IN /\ Len(st) = Len(text) /\ Len(si) = Len(images)
                 /\ \A i \in DOMAIN st : i <= Len(text) => st[i].page = Page(text[i])
                 /\ \A i \in DOMAIN si : i <= Len(images) => si[i].page = Page(images[i])


====
